---- MODULE Spec2Model ----
(***************************************************************************)
(* State-machine model of tt-connect: the instrument store and its        *)
(* refresh lifecycle (instrument_manager/manager.py, db.py), the          *)
(* instrument resolver (instrument_manager/resolver.py), the client's     *)
(* order path, cancel_all_orders and close_all_positions (client.py,       *)
(* capabilities.py, adapters/angelone/transformer.py), the adapter's HTTP *)
(* retry loop (adapters/base.py), authentication (auth/base.py,           *)
(* auth/store.py, adapters/angelone/auth.py), the streaming client        *)
(* (ws/angelone.py), the headers of REST calls, the session file          *)
(* (auth/store.py) and the vendors' instrument-dump parsers               *)
(* (adapters/zerodha/parser.py, adapters/angelone/parser.py).             *)
(*                                                                         *)
(* The tables carry the columns that manager.py's INSERT statements and   *)
(* resolver.py's SELECT statements name; name, lot_size and tick_size are *)
(* written but never read by any query and are left out.                  *)
(***************************************************************************)
EXTENDS Integers, Sequences, FiniteSets, TLC

\* Last calendar day the clock may reach (days are 1..MaxDay).
MaxDay == 2

\* Distinct instruments one client session resolves successfully.
MaxResolved == 1

VARIABLES
    today,      \* date.today(), as a day number
    on_stale,   \* InstrumentManager._on_stale
    committed,  \* durable content of the instrument database file
    conn,       \* content as seen through InstrumentManager._conn (with uncommitted changes)
    connOpen,   \* whether _conn is an open connection
    client,     \* lifecycle of the AsyncTTConnect object
    cache,      \* InstrumentResolver._cache of the client's resolver
    task,       \* per coroutine: position inside init/ensure_fresh/refresh and its locals
    ret,        \* outcome of the most recent call (return value or exception)
    pre,        \* history: committed content when the refresh now running started
    phase,      \* history: this session's refresh: "none", "running", "interrupted", "completed"
    loaded,     \* history: the ParsedInstruments of this session's completed refresh
    po,         \* AsyncTTConnect.place_order in flight: arguments and what it did so far
    caps,       \* the adapter's Capabilities record
    req,        \* BrokerAdapter._request in flight: attempts, sleeps, outcome
    config,     \* the config dict handed to the auth object (the user may update it)
    authObj,    \* the auth object: "none", "ready", or the exception its constructor raised
    mode,       \* BaseAuth._mode
    session,    \* BaseAuth._session
    sessions,   \* MemorySessionStore._sessions of the auth object's store
    net,        \* credential requests the most recent login()/refresh() sent, with their replies
    aret,       \* outcome of the most recent call on the auth object
    ca,         \* AsyncTTConnect.cancel_all_orders in flight: its locals and the requests sent
    cp,         \* AsyncTTConnect.close_all_positions in flight: its locals and the orders sent
    token_map,            \* AngelOneWebSocket._token_map: token -> Instrument
    token_exchange_type,  \* AngelOneWebSocket._token_exchange_type: token -> exchangeType
    ws,         \* the rest of the AngelOneWebSocket object, its _run task and its callers
    hd,         \* header dicts built by AngelOneAuth.headers and the REST calls holding them
    fs,         \* the session file of FileSessionStore and the save/load calls on it
    pr          \* a source row handed to the vendor parser and the groups it returned

storeVars ==
    <<today, on_stale, committed, conn, connOpen, client, cache, task, ret, pre, phase, loaded>>
orderVars == <<po, caps>>
authVars == <<config, authObj, mode, session, sessions, net, aret>>
cancelVars == <<ca>>
closeVars == <<cp>>
streamVars == <<token_map, token_exchange_type, ws>>
tailVars == <<hd, fs, pr>>
laterVars == <<closeVars, streamVars, tailVars>>
extVars == <<authVars, cancelVars, laterVars>>
vars ==
    <<today, on_stale, committed, conn, connOpen, client, cache, task, ret, pre, phase, loaded,
      po, caps, req, extVars>>

-----------------------------------------------------------------------------
(* Canonical values *)

\* date.isoformat(): an injective date -> text conversion
IsoFormat(d) == <<"iso", d>>

\* no row in _meta for key 'last_updated'
NoRow == <<>>

\* date(2026, 2, 26), the expiry of the derivative fixtures
Expiry1 == <<2026, 2, 26>>

\* an instrument without expiry
NoDate == <<0, 0, 0>>

Tasks == {"t1", "t2"}

-----------------------------------------------------------------------------
(* Canonical instruments (instruments.py) and ResolvedInstrument *)

Instr(kind, exchange, symbol, expiry, strike, option_type) ==
    [kind |-> kind, exchange |-> exchange, symbol |-> symbol, expiry |-> expiry,
     strike |-> strike, option_type |-> option_type]

Index(exchange, symbol) == Instr("Index", exchange, symbol, NoDate, 0, "-")
Equity(exchange, symbol) == Instr("Equity", exchange, symbol, NoDate, 0, "-")
Future(exchange, symbol, expiry) == Instr("Future", exchange, symbol, expiry, 0, "-")
Option(exchange, symbol, expiry, strike, option_type) ==
    Instr("Option", exchange, symbol, expiry, strike, option_type)
Currency(exchange, symbol) == Instr("Currency", exchange, symbol, NoDate, 0, "-")

NoInst == Instr("none", "-", "-", NoDate, 0, "-")
NoRes == [token |-> "-", broker_symbol |-> "-", exchange |-> "-"]

\* the instruments callers ask for
Queries ==
    {Index("NSE", "NIFTY"), Equity("BSE", "RELIANCE"),
     Future("NSE", "NIFTY", Expiry1), Option("BSE", "RELIANCE", Expiry1, 100, "CE"),
     Equity("NSE", "NONEXISTENT"), Equity("NSE", "NIFTY"), Index("BSE", "RELIANCE"),
     Future("NFO", "NIFTY", Expiry1), Option("BSE", "RELIANCE", Expiry1, 100, "PE"),
     Currency("CDS", "USDINR")}

\* history mark on cache entries: a refresh has completed since the entry was stored
MarkPreRefresh(c) == {[e EXCEPT !.pre_refresh = TRUE] : e \in c}

-----------------------------------------------------------------------------
(* Parsed instrument rows (the vendor parser's output) *)

IdxNifty ==
    [exchange |-> "NSE", symbol |-> "NIFTY", broker_symbol |-> "Nifty 50",
     segment |-> "INDICES", broker_token |-> "99926000"]

EqRel ==
    [exchange |-> "BSE", symbol |-> "RELIANCE", broker_symbol |-> "RELIANCE",
     segment |-> "BSE", broker_token |-> "500325"]

\* a second vendor row whose canonical symbol is also RELIANCE on BSE
\* (removesuffix("-EQ") maps "RELIANCE-EQ" and "RELIANCE" to the same symbol)
EqRelDup ==
    [exchange |-> "BSE", symbol |-> "RELIANCE", broker_symbol |-> "RELIANCE-EQ",
     segment |-> "BSE", broker_token |-> "2885"]

FutNifty ==
    [exchange |-> "NFO", symbol |-> "NIFTY", broker_symbol |-> "NIFTY26FEB26FUT",
     segment |-> "NFO-FUT", broker_token |-> "1000001", expiry |-> Expiry1,
     underlying_exchange |-> "NSE"]

OptRel ==
    [exchange |-> "BFO", symbol |-> "RELIANCE", broker_symbol |-> "RELIANCE26FEB26100CE",
     segment |-> "BFO-OPT", broker_token |-> "1000004", expiry |-> Expiry1,
     strike |-> 100, option_type |-> "CE", underlying_exchange |-> "BSE"]

\* ParsedInstruments values the fetch function may return
Inputs ==
    {p \in [indices  : {<<>>, <<IdxNifty>>},
            equities : {<<>>, <<EqRel>>, <<EqRel, EqRelDup>>},
            futures  : {<<>>, <<FutNifty>>},
            options  : {<<>>, <<OptRel>>}] : Len(p.futures) = Len(p.options)}

EmptyParsed == [indices |-> <<>>, equities |-> <<>>, futures |-> <<>>, options |-> <<>>]

-----------------------------------------------------------------------------
(* The database: tables as sets of rows *)

EmptyDB ==
    [instruments |-> {}, equities |-> {}, futures |-> {}, options |-> {},
     broker_tokens |-> {}, last_updated |-> NoRow]

\* tables in the order truncate_all deletes them
TruncateOrder == <<"broker_tokens", "equities", "futures", "options", "instruments">>

\* variant of the DELETE that leaves the instruments table as it is
DeleteFromDependents(db, table) ==
    IF table = "instruments" THEN db ELSE [db EXCEPT ![table] = {}]

DeleteFrom(db, table) == [db EXCEPT ![table] = {}]

MaxOf(S) == CHOOSE x \in S : \A y \in S : y <= x

\* cursor.lastrowid of an INSERT INTO instruments: INTEGER PRIMARY KEY without
\* AUTOINCREMENT takes the largest id in the table plus one
NextId(db) ==
    IF db.instruments = {} THEN 1 ELSE MaxOf({r.id : r \in db.instruments}) + 1

InsInstrument(db, row) ==
    [db EXCEPT !.instruments = @ \cup
        {[id |-> NextId(db), exchange |-> row.exchange, symbol |-> row.symbol,
          segment |-> row.segment]}]

InsEquity(db, id) ==
    [db EXCEPT !.equities = @ \cup {[instrument_id |-> id]}]

InsFuture(db, id, uid, row) ==
    [db EXCEPT !.futures = @ \cup
        {[instrument_id |-> id, underlying_id |-> uid, expiry |-> IsoFormat(row.expiry)]}]

InsOption(db, id, uid, row) ==
    [db EXCEPT !.options = @ \cup
        {[instrument_id |-> id, underlying_id |-> uid, expiry |-> IsoFormat(row.expiry),
          strike |-> row.strike, option_type |-> row.option_type]}]

InsToken(db, id, row, broker) ==
    [db EXCEPT !.broker_tokens = @ \cup
        {[instrument_id |-> id, broker_id |-> broker, token |-> row.broker_token,
          broker_symbol |-> row.broker_symbol]}]

\* keys of the underlying lookup
LookupKeys(db) == {<<r.exchange, r.symbol>> : r \in db.instruments}

\* The dicts {(exchange, symbol) -> id} the comprehension may build: with two rows
\* of one key the row iterated last wins, and the SELECT has no ORDER BY
LookupsOf(db) ==
    {f \in [LookupKeys(db) -> {r.id : r \in db.instruments}] :
        \A k \in LookupKeys(db) :
            \E r \in db.instruments : r.id = f[k] /\ <<r.exchange, r.symbol>> = k}

\* variant of IsStale that takes a store without a last_updated row for fresh
IsStaleNoRowFresh(db, day) ==
    db.last_updated # NoRow /\ db.last_updated # IsoFormat(day)

SetLastUpdated(db, day) == [db EXCEPT !.last_updated = IsoFormat(day)]

IsStale(db, day) ==
    IF db.last_updated = NoRow THEN TRUE ELSE db.last_updated # IsoFormat(day)

\* variant of HasAnyData that counts broker_tokens rows
HasAnyTokens(db) == Cardinality(db.broker_tokens) > 0

HasAnyData(db) == Cardinality(db.instruments) > 0

-----------------------------------------------------------------------------
(* InstrumentManager.init / ensure_fresh / refresh, one await point per step *)

IdleTask ==
    [pc |-> "idle", parsed |-> EmptyParsed, grp |-> "none", k |-> 0, stmt |-> 0,
     cur_id |-> 0, lookup |-> <<>>]

\* await points that lie inside refresh()
RefreshPcs ==
    {"fetch", "truncate", "truncate_commit", "insert", "lookup", "insert_commit",
     "set_meta", "meta_commit"}

\* variant of UnderlyingKey that looks the underlying up on the derivative's own venue
UnderlyingKeyVenue(row) == <<row.exchange, row.symbol>>

\* (underlying_exchange, symbol): the key a derivative row is looked up by
UnderlyingKey(row) == <<row.underlying_exchange, row.symbol>>

\* The next await point of _insert at or after row k of group grp: empty groups
\* return at once, and a derivative whose underlying is not in the lookup is
\* skipped (logged, `continue`) without touching the database.
RECURSIVE Seek(_, _, _, _)
Seek(parsed, lookup, grp, k) ==
    CASE grp = "indices" ->
            IF k <= Len(parsed.indices)
            THEN [pc |-> "insert", grp |-> grp, k |-> k]
            ELSE Seek(parsed, lookup, "equities", 1)
      [] grp = "equities" ->
            IF k <= Len(parsed.equities)
            THEN [pc |-> "insert", grp |-> grp, k |-> k]
            ELSE [pc |-> "lookup", grp |-> "none", k |-> 0]
      [] grp = "futures" ->
            IF k > Len(parsed.futures) THEN Seek(parsed, lookup, "options", 1)
            ELSE IF UnderlyingKey(parsed.futures[k]) \in DOMAIN lookup
            THEN [pc |-> "insert", grp |-> grp, k |-> k]
            ELSE Seek(parsed, lookup, grp, k + 1)
      [] OTHER ->
            IF k > Len(parsed.options)
            THEN [pc |-> "insert_commit", grp |-> "none", k |-> 0]
            ELSE IF UnderlyingKey(parsed.options[k]) \in DOMAIN lookup
            THEN [pc |-> "insert", grp |-> grp, k |-> k]
            ELSE Seek(parsed, lookup, grp, k + 1)

GoTo(L, pos) == [L EXCEPT !.pc = pos.pc, !.grp = pos.grp, !.k = pos.k, !.stmt = 1]

\* variant of ResolverInit in which the new resolver shares the earlier dict
ResolverKeep(old) == old

\* InstrumentResolver.__init__: self._cache = {} (old is the dict of the resolver
\* built before, which the new resolver does not share)
ResolverInit(old) == {}

\* dropped: the resolver this init replaced held cached entries
RetInit(status, cause) ==
    [op |-> "init", status |-> status, cause |-> cause, inst |-> NoInst, res |-> NoRes,
     hit |-> FALSE, pre_refresh |-> FALSE, dropped |-> FALSE]

\* client.init() returns: manager.init returned normally and the resolver is built
FinishInit(t, status, cause, old) ==
    /\ cache' = ResolverInit(old)
    /\ client' = "ready"
    /\ task' = [task EXCEPT ![t] = IdleTask]
    /\ ret' = [RetInit(status, cause) EXCEPT !.dropped = (old # {})]

\* client.init() raises
FailInit(t, status, cause) ==
    /\ client' = "failed"
    /\ task' = [task EXCEPT ![t] = IdleTask]
    /\ ret' = RetInit(status, cause)
    /\ UNCHANGED cache

\* AsyncTTConnect(...) then init(): login, get_connection, init_schema
ClientInit(t) ==
    /\ client = "none"
    /\ \A u \in Tasks : task[u].pc = "idle"
    /\ client' = "initializing"
    /\ connOpen' = TRUE
    /\ conn' = committed
    /\ task' = [task EXCEPT ![t].pc = "is_stale"]
    /\ ret' = RetInit("running", "none")
    /\ phase' = "none"
    /\ UNCHANGED <<today, on_stale, committed, cache, pre, loaded, orderVars, req, extVars>>

\* ensure_fresh: `if await self._is_stale()`
IsStaleStep(t) ==
    /\ task[t].pc = "is_stale"
    /\ IF IsStale(conn, today)
       THEN /\ task' = [task EXCEPT ![t].pc = "fetch"]
            /\ pre' = committed
            /\ phase' = "running"
            /\ UNCHANGED <<client, cache, ret>>
       ELSE /\ FinishInit(t, "ok", "none", cache)
            /\ UNCHANGED <<pre, phase>>
    /\ UNCHANGED <<today, on_stale, committed, conn, connOpen, loaded, orderVars, req, extVars>>

\* refresh: parsed = await fetch_fn(), the fetch returning p
FetchOf(t, p) ==
    /\ task[t].pc = "fetch"
    /\ task' = [task EXCEPT ![t].parsed = p, ![t].pc = "truncate", ![t].k = 1]
    /\ UNCHANGED <<today, on_stale, committed, conn, connOpen, client, cache, ret, pre, phase,
                   loaded, orderVars, req, extVars>>

FetchStep(t) == \E p \in Inputs : FetchOf(t, p)

\* truncate_all: one DELETE FROM per table
TruncateStep(t) ==
    /\ task[t].pc = "truncate"
    /\ conn' = DeleteFrom(conn, TruncateOrder[task[t].k])
    /\ task' = IF task[t].k < Len(TruncateOrder)
               THEN [task EXCEPT ![t].k = @ + 1]
               ELSE [task EXCEPT ![t].pc = "truncate_commit", ![t].k = 0]
    /\ UNCHANGED <<today, on_stale, committed, connOpen, client, cache, ret, pre, phase,
                   loaded, orderVars, req, extVars>>

\* truncate_all: await conn.commit()
TruncateCommit(t) ==
    /\ task[t].pc = "truncate_commit"
    /\ committed' = conn
    /\ task' = [task EXCEPT ![t] = GoTo(@, Seek(@.parsed, <<>>, "indices", 1))]
    /\ UNCHANGED <<today, on_stale, conn, connOpen, client, cache, ret, pre, phase,
                   loaded, orderVars, req, extVars>>

\* One INSERT of _insert_indices / _insert_equities / _insert_futures /
\* _insert_options on row L.k of group L.grp: the instruments row, then the
\* sub-table row, then the broker_tokens row
InsertEffect(db, L, broker) ==
    LET row == L.parsed[L.grp][L.k]
    IN  CASE L.stmt = 1 ->
               [db |-> InsInstrument(db, row),
                L  |-> [L EXCEPT !.cur_id = NextId(db), !.stmt = 2]]
          [] L.stmt = 2 ->
               [db |-> CASE L.grp = "futures" ->
                               InsFuture(db, L.cur_id, L.lookup[UnderlyingKey(row)], row)
                         [] L.grp = "options" ->
                               InsOption(db, L.cur_id, L.lookup[UnderlyingKey(row)], row)
                         [] OTHER -> InsEquity(db, L.cur_id),
                L  |-> [L EXCEPT !.stmt = 3]]
          [] OTHER ->
               [db |-> InsToken(db, L.cur_id, row, broker),
                L  |-> GoTo(L, Seek(L.parsed, L.lookup, L.grp, L.k + 1))]

\* the table the second INSERT of a row of group grp goes to
SubTable(grp) ==
    CASE grp = "futures" -> "futures"
      [] grp = "options" -> "options"
      [] OTHER -> "equities"

\* the INSERT at position L hits a PRIMARY KEY already in the table
\* (instrument_id in the sub-tables, (instrument_id, broker_id) in broker_tokens)
KeyConflict(db, L, broker) ==
    CASE L.stmt = 1 -> FALSE
      [] L.stmt = 2 -> \E r \in db[SubTable(L.grp)] : r.instrument_id = L.cur_id
      [] OTHER -> \E r \in db.broker_tokens :
                      r.instrument_id = L.cur_id /\ r.broker_id = broker

InsertStmt(t) ==
    /\ task[t].pc = "insert"
    /\ ~KeyConflict(conn, task[t], caps.broker_id)
    /\ conn' = InsertEffect(conn, task[t], caps.broker_id).db
    /\ task' = [task EXCEPT ![t] = InsertEffect(conn, task[t], caps.broker_id).L]
    /\ UNCHANGED <<today, on_stale, committed, connOpen, client, cache, ret, pre, phase,
                   loaded, orderVars, req, extVars>>

\* _insert run from position L to its commit, as one function of the database
RECURSIVE RunInsert(_, _, _)
RunInsert(db, L, broker) ==
    CASE L.pc = "insert" ->
            RunInsert(InsertEffect(db, L, broker).db, InsertEffect(db, L, broker).L, broker)
      [] L.pc = "lookup" ->
            LET f == CHOOSE g \in LookupsOf(db) : TRUE
            IN  RunInsert(db, GoTo([L EXCEPT !.lookup = f], Seek(L.parsed, f, "futures", 1)),
                          broker)
      [] OTHER -> db

\* the store that refresh() of an empty database with `parsed` on `day` leaves
StoreOf(parsed, day, broker) ==
    SetLastUpdated(
        RunInsert(EmptyDB,
                  GoTo([IdleTask EXCEPT !.parsed = parsed], Seek(parsed, <<>>, "indices", 1)),
                  broker),
        day)

\* an INSERT raises sqlite3.IntegrityError, which leaves refresh and, under
\* FAIL, ensure_fresh; nothing is rolled back
InsertConflict(t) ==
    /\ task[t].pc = "insert"
    /\ KeyConflict(conn, task[t], caps.broker_id)
    /\ on_stale = "fail"
    /\ task' = [task EXCEPT ![t] = IdleTask]
    /\ ret' = RetInit("raised", "exception")
    /\ phase' = "interrupted"
    /\ pre' = EmptyDB
    /\ UNCHANGED <<today, on_stale, committed, conn, connOpen, client, cache, loaded,
                   orderVars, req, extVars>>

\* _build_underlying_lookup: SELECT id, exchange, symbol FROM instruments
BuildLookup(t) ==
    /\ task[t].pc = "lookup"
    /\ \E f \in LookupsOf(conn) :
         task' = [task EXCEPT
                    ![t] = GoTo([@ EXCEPT !.lookup = f], Seek(@.parsed, f, "futures", 1))]
    /\ UNCHANGED <<today, on_stale, committed, conn, connOpen, client, cache, ret, pre, phase,
                   loaded, orderVars, req, extVars>>

\* _insert: await self._conn.commit()
InsertCommit(t) ==
    /\ task[t].pc = "insert_commit"
    /\ committed' = conn
    /\ task' = [task EXCEPT ![t].pc = "set_meta"]
    /\ UNCHANGED <<today, on_stale, conn, connOpen, client, cache, ret, pre, phase,
                   loaded, orderVars, req, extVars>>

\* _set_last_updated: INSERT OR REPLACE INTO _meta
SetMetaStmt(t) ==
    /\ task[t].pc = "set_meta"
    /\ conn' = SetLastUpdated(conn, today)
    /\ task' = [task EXCEPT ![t].pc = "meta_commit"]
    /\ UNCHANGED <<today, on_stale, committed, connOpen, client, cache, ret, pre, phase,
                   loaded, orderVars, req, extVars>>

\* _set_last_updated: commit; refresh, ensure_fresh and init then return
MetaCommit(t) ==
    /\ task[t].pc = "meta_commit"
    /\ committed' = conn
    /\ phase' = "completed"
    /\ loaded' = task[t].parsed
    /\ pre' = EmptyDB
    /\ FinishInit(t, "ok", "none", MarkPreRefresh(cache))
    /\ UNCHANGED <<today, on_stale, conn, connOpen, orderVars, req, extVars>>

-----------------------------------------------------------------------------
(* Failure of a refresh in flight, and ensure_fresh's handler *)

\* The awaited operation of refresh raises an Exception (fetch error, sqlite error):
\* `except Exception as e` re-raises under FAIL and consults the cache under WARN
RefreshRaise(t) ==
    /\ task[t].pc \in RefreshPcs
    /\ phase' = "interrupted"
    /\ IF on_stale = "fail"
       THEN FailInit(t, "raised", "exception")
       ELSE /\ task' = [task EXCEPT ![t].pc = "has_any_data"]
            /\ ret' = RetInit("running", "exception")
            /\ UNCHANGED <<client, cache>>
    /\ pre' = IF on_stale = "fail" THEN EmptyDB ELSE pre
    /\ UNCHANGED <<today, on_stale, committed, conn, connOpen, loaded, orderVars, req, extVars>>

\* WARN: `if not await self._has_any_data(): raise TTConnectError(...)`, else return
HasAnyDataStep(t) ==
    /\ task[t].pc = "has_any_data"
    /\ IF HasAnyData(conn)
       THEN FinishInit(t, "ok_stale", "exception", cache)
       ELSE FailInit(t, "no_cache", "exception")
    /\ pre' = EmptyDB
    /\ UNCHANGED <<today, on_stale, committed, conn, connOpen, phase, loaded,
                   orderVars, req, extVars>>

\* The task is cancelled while refresh awaits: CancelledError is a BaseException,
\* which `except Exception` does not catch
RefreshCancel(t) ==
    /\ task[t].pc \in RefreshPcs
    /\ phase' = "interrupted"
    /\ FailInit(t, "cancelled", "cancelled")
    /\ pre' = EmptyDB
    /\ UNCHANGED <<today, on_stale, committed, conn, connOpen, loaded, orderVars, req, extVars>>

\* The process dies: the connection goes with it, and sqlite rolls the open
\* transaction back
Crash ==
    /\ connOpen
    /\ connOpen' = FALSE
    /\ conn' = committed
    /\ client' = "none"
    /\ task' = [t \in Tasks |-> IdleTask]
    /\ phase' = IF phase = "running" THEN "interrupted" ELSE "none"
    /\ pre' = EmptyDB
    /\ loaded' = EmptyParsed
    /\ ret' = [RetInit("crashed", "crash") EXCEPT !.op = "crash"]
    /\ UNCHANGED <<today, on_stale, committed, cache, orderVars, req, extVars>>

\* AsyncTTConnect.close(): the connection closes, uncommitted changes are dropped
Close ==
    /\ client \in {"ready", "failed"}
    /\ \A t \in Tasks : task[t].pc = "idle"
    /\ connOpen' = FALSE
    /\ conn' = committed
    /\ client' = "none"
    /\ ret' = [RetInit("ok", "none") EXCEPT !.op = "close"]
    /\ phase' = "none"
    /\ loaded' = EmptyParsed
    /\ UNCHANGED <<today, on_stale, committed, cache, task, pre, orderVars, req, extVars>>

\* midnight passes
Tick ==
    /\ today < MaxDay
    /\ today' = today + 1
    /\ UNCHANGED <<on_stale, committed, conn, connOpen, client, cache, task, ret, pre,
                   phase, loaded, orderVars, req, extVars>>

-----------------------------------------------------------------------------
(* InstrumentResolver *)

\* variant of Resolved that reads the columns in the wrong order
ResolvedSwapped(bt, i) ==
    [token |-> bt.broker_symbol, broker_symbol |-> bt.token, exchange |-> i.exchange]

\* ResolvedInstrument(token=row[0], broker_symbol=row[1], exchange=row[2])
Resolved(bt, i) ==
    [token |-> bt.token, broker_symbol |-> bt.broker_symbol, exchange |-> i.exchange]

\* rows of _resolve_index's join
ResolveIndexRows(db, inst, broker) ==
    {Resolved(x[3], x[1]) : x \in
        {y \in db.instruments \X db.equities \X db.broker_tokens :
            /\ y[2].instrument_id = y[1].id
            /\ y[3].instrument_id = y[1].id
            /\ y[1].exchange = inst.exchange
            /\ y[1].symbol = inst.symbol
            /\ y[1].segment = "INDICES"
            /\ y[3].broker_id = broker}}

\* rows of _resolve_equity's join
ResolveEquityRows(db, inst, broker) ==
    {Resolved(x[3], x[1]) : x \in
        {y \in db.instruments \X db.equities \X db.broker_tokens :
            /\ y[2].instrument_id = y[1].id
            /\ y[3].instrument_id = y[1].id
            /\ y[1].exchange = inst.exchange
            /\ y[1].symbol = inst.symbol
            /\ y[1].segment # "INDICES"
            /\ y[3].broker_id = broker}}

\* variant of _resolve_future's join that matches the derivative row's own exchange
ResolveFutureRowsByVenue(db, inst, broker) ==
    {Resolved(x[4], x[1]) : x \in
        {y \in db.instruments \X db.futures \X db.instruments \X db.broker_tokens :
            /\ y[2].instrument_id = y[1].id
            /\ y[3].id = y[2].underlying_id
            /\ y[4].instrument_id = y[1].id
            /\ y[1].exchange = inst.exchange
            /\ y[1].symbol = inst.symbol
            /\ y[2].expiry = IsoFormat(inst.expiry)
            /\ y[4].broker_id = broker}}

\* rows of _resolve_future's join: fut, f, u, bt
ResolveFutureRows(db, inst, broker) ==
    {Resolved(x[4], x[1]) : x \in
        {y \in db.instruments \X db.futures \X db.instruments \X db.broker_tokens :
            /\ y[2].instrument_id = y[1].id
            /\ y[3].id = y[2].underlying_id
            /\ y[4].instrument_id = y[1].id
            /\ y[3].exchange = inst.exchange
            /\ y[3].symbol = inst.symbol
            /\ y[2].expiry = IsoFormat(inst.expiry)
            /\ y[4].broker_id = broker}}

\* rows of _resolve_option's join: opt, o, u, bt
ResolveOptionRows(db, inst, broker) ==
    {Resolved(x[4], x[1]) : x \in
        {y \in db.instruments \X db.options \X db.instruments \X db.broker_tokens :
            /\ y[2].instrument_id = y[1].id
            /\ y[3].id = y[2].underlying_id
            /\ y[4].instrument_id = y[1].id
            /\ y[3].exchange = inst.exchange
            /\ y[3].symbol = inst.symbol
            /\ y[2].expiry = IsoFormat(inst.expiry)
            /\ y[2].strike = inst.strike
            /\ y[2].option_type = inst.option_type
            /\ y[4].broker_id = broker}}

\* _resolve: dispatch on the instrument's type; any other type has no query
ResolveRows(db, inst, broker) ==
    CASE inst.kind = "Index"  -> ResolveIndexRows(db, inst, broker)
      [] inst.kind = "Equity" -> ResolveEquityRows(db, inst, broker)
      [] inst.kind = "Future" -> ResolveFutureRows(db, inst, broker)
      [] inst.kind = "Option" -> ResolveOptionRows(db, inst, broker)
      [] OTHER -> {}

\* variant of FetchOne that answers an empty result with a default instrument
FetchOneDefault(rows) ==
    IF rows = {} THEN {[found |-> TRUE, res |-> NoRes]}
    ELSE {[found |-> TRUE, res |-> r] : r \in rows}

\* cur.fetchone() and `if not row: raise InstrumentNotFoundError`: the results a
\* query may give; with several matching rows sqlite's row order decides
FetchOne(rows) ==
    IF rows = {} THEN {[found |-> FALSE, res |-> NoRes]}
    ELSE {[found |-> TRUE, res |-> r] : r \in rows}

RetResolve(inst, o) ==
    [op |-> "resolve", status |-> o.status, cause |-> "none", inst |-> inst, res |-> o.res,
     hit |-> o.hit, pre_refresh |-> o.pre_refresh, dropped |-> FALSE]

\* InstrumentResolver.resolve on cache c and database db: the cached value if the
\* instrument is a key of the cache, else the query, whose result is stored; a
\* miss raises and stores nothing
ResolveOutcomes(c, db, inst, broker) ==
    IF \E e \in c : e.inst = inst
    THEN {[status |-> "ok", res |-> e.res, hit |-> TRUE, pre_refresh |-> e.pre_refresh,
           cache |-> c] : e \in {x \in c : x.inst = inst}}
    ELSE {IF o.found
          THEN [status |-> "ok", res |-> o.res, hit |-> FALSE, pre_refresh |-> FALSE,
                cache |-> c \cup {[inst |-> inst, res |-> o.res, pre_refresh |-> FALSE]}]
          ELSE [status |-> "not_found", res |-> NoRes, hit |-> FALSE, pre_refresh |-> FALSE,
                cache |-> c]
          : o \in FetchOne(ResolveRows(db, inst, broker))}

\* AsyncTTConnect._resolve -> InstrumentResolver.resolve
Resolve(inst) ==
    /\ client = "ready"
    /\ \/ \E e \in cache : e.inst = inst
       \/ ResolveRows(conn, inst, caps.broker_id) = {}
       \/ Cardinality(cache) < MaxResolved
    /\ \E o \in ResolveOutcomes(cache, conn, inst, caps.broker_id) :
         /\ cache' = o.cache
         /\ ret' = RetResolve(inst, o)
    /\ UNCHANGED <<today, on_stale, committed, conn, connOpen, client, task, pre, phase,
                   loaded, orderVars, req, extVars>>

-----------------------------------------------------------------------------
(* Capabilities and AsyncTTConnect.place_order *)

OrderTypes == {"MARKET", "LIMIT", "SL", "SL_M"}
ProductTypes == {"CNC", "MIS", "NRML"}

ANGELONE_CAPABILITIES ==
    [broker_id |-> "angelone", segments |-> {"NSE", "BSE", "NFO", "CDS", "MCX"},
     order_types |-> {"MARKET", "LIMIT", "SL", "SL_M"},
     product_types |-> {"CNC", "MIS", "NRML"},
     auth_modes |-> {"manual", "auto"}]

\* the narrow vendor of the capability tests
TestCaps ==
    [broker_id |-> "test", segments |-> {"NSE"}, order_types |-> {"MARKET"},
     product_types |-> {"CNC"}, auth_modes |-> {"manual"}]

Vendors == {ANGELONE_CAPABILITIES, TestCaps}

\* variant of verify without the Index check
VerifyNoIndexCheck(c, inst, order_type, product_type) ==
    IF inst.exchange \notin c.segments THEN "UnsupportedFeatureError"
    ELSE IF order_type \notin c.order_types THEN "UnsupportedFeatureError"
    ELSE IF product_type \notin c.product_types THEN "UnsupportedFeatureError"
    ELSE "ok"

\* Capabilities.verify: the first failing check raises UnsupportedFeatureError
Verify(c, inst, order_type, product_type) ==
    IF inst.kind = "Index" THEN "UnsupportedFeatureError"
    ELSE IF inst.exchange \notin c.segments THEN "UnsupportedFeatureError"
    ELSE IF order_type \notin c.order_types THEN "UnsupportedFeatureError"
    ELSE IF product_type \notin c.product_types THEN "UnsupportedFeatureError"
    ELSE "ok"

\* queries: SELECTs the resolver ran for this call; http: place-order requests sent
IdlePO ==
    [pc |-> "idle", inst |-> NoInst, order_type |-> "-", product |-> "-", res |-> NoRes,
     queries |-> 0, http |-> 0, exchange |-> "-", result |-> "none"]

\* place_order is called: capabilities.verify runs before the first await
PlaceOrderCall(inst, order_type, product) ==
    /\ client = "ready"
    /\ po.pc \in {"idle", "done"}
    /\ po' = IF Verify(caps, inst, order_type, product) = "ok"
             THEN [IdlePO EXCEPT !.pc = "resolve", !.inst = inst,
                                 !.order_type = order_type, !.product = product]
             ELSE [IdlePO EXCEPT !.pc = "done", !.inst = inst,
                                 !.order_type = order_type, !.product = product,
                                 !.result = Verify(caps, inst, order_type, product)]
    /\ UNCHANGED <<storeVars, caps, req, extVars>>

\* resolved = await self._resolve(instrument)
PlaceOrderResolve ==
    /\ po.pc = "resolve"
    /\ \E o \in ResolveOutcomes(cache, conn, po.inst, caps.broker_id) :
         /\ cache' = o.cache
         /\ po' = IF o.status = "ok"
                  THEN [po EXCEPT !.pc = "send", !.res = o.res,
                                  !.queries = IF o.hit THEN 0 ELSE 1]
                  ELSE [po EXCEPT !.pc = "done", !.queries = 1,
                                  !.result = "InstrumentNotFoundError"]
    /\ UNCHANGED <<today, on_stale, committed, conn, connOpen, client, task, ret, pre, phase,
                   loaded, caps, req, extVars>>

\* to_order_params, then raw = await self._adapter.place_order(params): the request
\* goes out with the resolved exchange in its payload; the broker accepts or rejects
PlaceOrderSend ==
    /\ po.pc = "send"
    /\ \E r \in {"order_id", "BrokerError"} :
         po' = [po EXCEPT !.pc = "done", !.http = @ + 1, !.exchange = po.res.exchange,
                          !.result = r]
    /\ UNCHANGED <<storeVars, caps, req, extVars>>

-----------------------------------------------------------------------------
(* BrokerAdapter._request *)

MAX_RETRIES == 3
RETRY_BACKOFF == 1

RECURSIVE Pow2(_)
Pow2(n) == IF n = 0 THEN 1 ELSE 2 * Pow2(n - 1)

\* what one `await self._client.request(...)` may end in: a timeout, another
\* transport error, or a response with a status and a body
Replies ==
    {[kind |-> "timeout", status |-> 0, body |-> "-"],
     [kind |-> "transport", status |-> 0, body |-> "-"]}
    \cup [kind : {"response"}, status : {200, 400, 500},
          body : {"object", "error_object", "array", "not_json"}]

\* AngelOneAdapter._is_error: the envelope's status flag is False, or the HTTP
\* status is 400 or above
IsError(raw, status_code) == raw = "error_object" \/ status_code >= 400

IdleReq ==
    [pc |-> "idle", attempt |-> 0, log |-> <<>>, slept |-> <<>>, last_exc |-> "none",
     result |-> "none", cause |-> "none"]

\* _request is called: last_exc = None, the loop starts at attempt 1
RequestCall ==
    /\ req.pc \in {"idle", "done"}
    /\ req' = [IdleReq EXCEPT !.pc = "attempt", !.attempt = 1]
    /\ UNCHANGED <<storeVars, orderVars, extVars>>

ReqRaise(r, exc, cause) == [r EXCEPT !.pc = "done", !.result = exc, !.cause = cause]

\* one pass of the loop body up to its sleep, raise or return
RequestAttempt ==
    /\ req.pc = "attempt"
    /\ \E reply \in Replies :
         LET r == [req EXCEPT !.log = Append(@, reply)]
         IN  req' =
               CASE reply.kind = "timeout" ->
                      [r EXCEPT !.pc = "sleep", !.last_exc = "TimeoutException"]
                 [] reply.kind = "transport" -> ReqRaise(r, "TransportError", "none")
                 [] reply.body = "not_json" -> ReqRaise(r, "JSONDecodeError", "none")
                 [] reply.body = "array" -> ReqRaise(r, "TTConnectError", "none")
                 [] reply.status >= 500 ->
                      [r EXCEPT !.pc = "sleep", !.last_exc = "TTConnectError"]
                 [] IsError(reply.body, reply.status) -> ReqRaise(r, "parse_error", "none")
                 [] OTHER -> [r EXCEPT !.pc = "done", !.result = "returned"]
    /\ UNCHANGED <<storeVars, orderVars, extVars>>

\* await asyncio.sleep(_RETRY_BACKOFF * 2 ** (attempt - 1)); continue: the next
\* attempt, or past the last one the raise after the loop
RequestSleep ==
    /\ req.pc = "sleep"
    /\ LET r == [req EXCEPT !.slept = Append(@, RETRY_BACKOFF * Pow2(req.attempt - 1))]
       IN  req' = IF req.attempt < MAX_RETRIES
                  THEN [r EXCEPT !.pc = "attempt", !.attempt = @ + 1]
                  ELSE ReqRaise(r, "TTConnectError", req.last_exc)
    /\ UNCHANGED <<storeVars, orderVars, extVars>>

-----------------------------------------------------------------------------
(* Authentication: BaseAuth, its session store and the vendor hooks *)

AuthModes == {"manual", "auto"}

\* next_midnight_ist, in days: the start of the day after `day`
NextMidnight(day) == day + 1

\* expires_at is <<>> for None and <<d>> for the start of day d
SessionData(access_token, refresh_token, feed_token, expires_at) ==
    [access_token |-> access_token, refresh_token |-> refresh_token,
     feed_token |-> feed_token, expires_at |-> expires_at]

\* self._session = None; a token "-" is an absent one
NoSession == SessionData("-", "-", "-", <<>>)

\* variant of is_expired under which a session still counts on its expiry instant
IsExpiredAfter(s, day) ==
    IF s.expires_at = <<>> THEN FALSE ELSE day > s.expires_at[1]

\* SessionData.is_expired at a moment of day `day`
IsExpired(s, day) ==
    IF s.expires_at = <<>> THEN FALSE ELSE day >= s.expires_at[1]

\* MemorySessionStore: _sessions is a dict keyed by broker id
EmptySessions == [b \in {} |-> NoSession]
Load(st, broker_id) == IF broker_id \in DOMAIN st THEN st[broker_id] ELSE NoSession
Save(st, broker_id, s) ==
    [b \in DOMAIN st \cup {broker_id} |-> IF b = broker_id THEN s ELSE st[b]]

\* _default_mode and _supported_modes: BaseAuth's own for the test vendor, the
\* vendor subclass's otherwise
DefaultMode(broker_id) == IF broker_id = "angelone" THEN "auto" ELSE "manual"
SupportedModes(broker_id) ==
    IF broker_id = "angelone" THEN {"manual", "auto"} ELSE {"manual"}

\* Capabilities.verify_auth_mode
VerifyAuthMode(c, m) == IF m \notin c.auth_modes THEN "UnsupportedFeatureError" ELSE "ok"

\* what the vendor's login and renew-token endpoints may answer: tokens, an
\* error envelope, or nothing usable (connection error, body without jwtToken)
LoginReplies ==
    {[kind |-> "ok", jwt |-> "jwtL1", refresh |-> "rtL1", feed |-> "ftL1"],
     [kind |-> "ok", jwt |-> "jwtL2", refresh |-> "-", feed |-> "-"],
     [kind |-> "envelope", jwt |-> "-", refresh |-> "-", feed |-> "-"],
     [kind |-> "exception", jwt |-> "-", refresh |-> "-", feed |-> "-"]}
RenewReplies ==
    {[kind |-> "ok", jwt |-> "jwtR", refresh |-> "rtR", feed |-> "ftR"],
     [kind |-> "envelope", jwt |-> "-", refresh |-> "-", feed |-> "-"],
     [kind |-> "exception", jwt |-> "-", refresh |-> "-", feed |-> "-"]}

Sent(request, reply) == [req |-> request, reply |-> reply]

\* result of a hook: how it ended, self._session after it, the requests it sent
HookResult(status, s, sent) == [status |-> status, session |-> s, net |-> sent]

\* _login_manual: the token of the config becomes the session; a missing or
\* empty token raises
LoginManual(cfg, cur, day) ==
    IF cfg.access_token \in {"-", ""}
    THEN HookResult("AuthenticationError", cur, <<>>)
    ELSE HookResult("ok", SessionData(cfg.access_token, "-", "-", <<NextMidnight(day)>>), <<>>)

\* the session the automated hooks build from the tokens of a reply
SessionOf(reply, day) ==
    SessionData(reply.jwt, reply.refresh, reply.feed, <<NextMidnight(day)>>)

\* variant of login that drops the held tokens when the request fails
LoginAutoClearing(cfg, cur, day, reply) ==
    IF ~cfg.creds THEN HookResult("AuthenticationError", cur, <<>>)
    ELSE IF reply.kind = "ok"
    THEN HookResult("ok", SessionOf(reply, day), <<Sent("login", reply)>>)
    ELSE HookResult("AuthenticationError", NoSession, <<Sent("login", reply)>>)

\* AngelOneAuth.login: without the four credentials it raises before any
\* request; otherwise one loginByPassword request, whose tokens are kept
LoginAuto(cfg, cur, day, reply) ==
    IF ~cfg.creds THEN HookResult("AuthenticationError", cur, <<>>)
    ELSE IF reply.kind = "ok"
    THEN HookResult("ok", SessionOf(reply, day), <<Sent("login", reply)>>)
    ELSE HookResult("AuthenticationError", cur, <<Sent("login", reply)>>)

\* a hook run after another one: requests accumulate
Then(sent, h) == [h EXCEPT !.net = sent \o h.net]

\* AngelOneAuth.refresh: no refresh token -> login; else one renewToken request.
\* An error envelope -> login inside the try block, so that a login that raises
\* lands in `except Exception`, which logs in once more; an exception of the
\* request itself -> login from the handler.
RefreshAuto(cfg, cur, day, renew, login1, login2) ==
    IF cur.refresh_token = "-" THEN LoginAuto(cfg, cur, day, login1)
    ELSE IF renew.kind = "ok"
    THEN HookResult("ok", SessionOf(renew, day), <<Sent("renew", renew)>>)
    ELSE IF renew.kind = "envelope"
    THEN LET first == Then(<<Sent("renew", renew)>>, LoginAuto(cfg, cur, day, login1))
         IN  IF first.status = "ok" THEN first
             ELSE Then(first.net, LoginAuto(cfg, cur, day, login2))
    ELSE Then(<<Sent("renew", renew)>>, LoginAuto(cfg, cur, day, login1))

\* variant of the hook choice of refresh that takes the automated hook in any mode
RefreshHookAuto(m, cfg, cur, day, renew, login1, login2) ==
    RefreshAuto(cfg, cur, day, renew, login1, login2)

\* the hook BaseAuth.refresh runs: _refresh_auto in AUTO, else _login_manual
RefreshHook(m, cfg, cur, day, renew, login1, login2) ==
    IF m = "auto" THEN RefreshAuto(cfg, cur, day, renew, login1, login2)
    ELSE LoginManual(cfg, cur, day)

\* outcome of a call: cached is what the store held, prev is self._session, at
\* is the day, all three when the call began
AuthRet(op, status, hook, cached) ==
    [op |-> op, status |-> status, hook |-> hook, cached |-> cached, prev |-> session,
     at |-> today]

\* variant of the constructor's mode resolution without the supported-modes check
InitModeUnchecked(cfg, broker_id) ==
    LET mode_raw == IF cfg.auth_mode = "-" THEN DefaultMode(broker_id) ELSE cfg.auth_mode
    IN  IF mode_raw \notin AuthModes THEN "UnsupportedFeatureError" ELSE mode_raw

\* the mode BaseAuth.__init__ resolves from the config, or the error it raises
InitMode(cfg, broker_id) ==
    LET mode_raw == IF cfg.auth_mode = "-" THEN DefaultMode(broker_id) ELSE cfg.auth_mode
    IN  IF mode_raw \notin AuthModes THEN "UnsupportedFeatureError"
        ELSE IF mode_raw \notin SupportedModes(broker_id) THEN "UnsupportedFeatureError"
        ELSE mode_raw

\* BaseAuth.__init__ of a vendor's auth class
AuthNew ==
    /\ authObj = "none"
    /\ LET m == InitMode(config, caps.broker_id)
       IN  IF m = "UnsupportedFeatureError"
           THEN /\ authObj' = "UnsupportedFeatureError"
                /\ mode' = "-"
                /\ aret' = AuthRet("init", "UnsupportedFeatureError", "none", NoSession)
           ELSE /\ authObj' = "ready"
                /\ mode' = m
                /\ aret' = AuthRet("init", "ok", "none", NoSession)
    /\ session' = NoSession
    /\ sessions' = EmptySessions
    /\ net' = <<>>
    /\ UNCHANGED <<storeVars, orderVars, req, cancelVars, laterVars, config>>

\* BaseAuth.login
Login ==
    /\ authObj = "ready"
    /\ LET cached == Load(sessions, caps.broker_id)
       IN  IF cached # NoSession /\ ~IsExpired(cached, today)
           THEN /\ session' = cached
                /\ net' = <<>>
                /\ aret' = AuthRet("login", "ok", "none", cached)
                /\ UNCHANGED sessions
           ELSE \E reply \in LoginReplies :
                LET h == IF mode = "manual" THEN LoginManual(config, session, today)
                         ELSE LoginAuto(config, session, today, reply)
                IN  /\ session' = h.session
                    /\ net' = h.net
                    /\ aret' = AuthRet("login", h.status,
                                       IF mode = "manual" THEN "_login_manual"
                                       ELSE "_login_auto", cached)
                    /\ sessions' = IF h.status = "ok" /\ h.session # NoSession
                                   THEN Save(sessions, caps.broker_id, h.session)
                                   ELSE sessions
    /\ UNCHANGED <<storeVars, orderVars, req, cancelVars, laterVars, config, authObj, mode>>

\* BaseAuth.refresh: the automated branch leaves the store to the hook, which
\* does not write it; the manual branch re-reads the config and saves
Refresh ==
    /\ authObj = "ready"
    /\ \E renew \in RenewReplies, login1 \in LoginReplies, login2 \in LoginReplies :
       LET h == RefreshHook(mode, config, session, today, renew, login1, login2)
       IN  /\ session' = h.session
           /\ net' = h.net
           /\ aret' = AuthRet("refresh", h.status,
                              IF mode = "auto" THEN "_refresh_auto" ELSE "_login_manual",
                              Load(sessions, caps.broker_id))
           /\ sessions' = IF mode = "manual" /\ h.status = "ok" /\ h.session # NoSession
                          THEN Save(sessions, caps.broker_id, h.session)
                          ELSE sessions
    /\ UNCHANGED <<storeVars, orderVars, req, cancelVars, laterVars, config, authObj, mode>>

\* the user puts another access_token into the config dict
ConfigUpdate(tok) ==
    /\ authObj = "ready"
    /\ config.access_token # tok
    /\ config' = [config EXCEPT !.access_token = tok]
    /\ UNCHANGED <<storeVars, orderVars, req, cancelVars, laterVars, authObj, mode, session, sessions, net, aret>>

NoConfig == [auth_mode |-> "-", access_token |-> "-", creds |-> FALSE]

AuthIdle ==
    /\ config = NoConfig
    /\ authObj = "none"
    /\ mode = "-"
    /\ session = NoSession
    /\ sessions = EmptySessions
    /\ net = <<>>
    /\ aret = [op |-> "none", status |-> "ok", hook |-> "none", cached |-> NoSession,
               prev |-> NoSession, at |-> 1]

-----------------------------------------------------------------------------
(* AsyncTTConnect.cancel_all_orders *)

\* Largest order book the broker returns.
MaxOrders == 2

OrderStatuses == {"PENDING", "OPEN", "COMPLETE", "CANCELLED", "REJECTED"}

\* statuses as the vendor sends them, one of them unknown to the status map
RawStatuses == {"complete", "rejected", "cancelled", "open", "trigger pending", "on hold"}

\* _ORDER_STATUS_MAP.get(status_raw, OrderStatus.PENDING)
ToOrderStatus(raw) ==
    CASE raw = "complete" -> "COMPLETE"
      [] raw = "rejected" -> "REJECTED"
      [] raw = "cancelled" -> "CANCELLED"
      [] raw = "open" -> "OPEN"
      [] raw = "trigger pending" -> "PENDING"
      [] OTHER -> "PENDING"

\* order books: the i-th row carries order id i
Books ==
    UNION {[1..n -> RawStatuses] : n \in 0..MaxOrders}

\* get_orders: every raw row through transformer.to_order
ToOrders(book) ==
    [i \in DOMAIN book |-> [id |-> i, status |-> ToOrderStatus(book[i])]]

\* variant of the filter that keeps OPEN orders only
OpenOrdersOnlyOpen(orders) ==
    LET Keep(o) == o.status = "OPEN" IN SelectSeq(orders, Keep)

\* open_orders: the orders whose status is OPEN or PENDING, in book order
OpenOrders(orders) ==
    LET Keep(o) == o.status \in {"OPEN", "PENDING"} IN SelectSeq(orders, Keep)

\* started: cancel requests sent; replies: how each ended; result: "returned"
\* with (cancelled, failed), or the exception that left the call
IdleCA ==
    [pc |-> "idle", orders |-> <<>>, open |-> <<>>, started |-> <<>>, replies |-> <<>>,
     cancelled |-> <<>>, failed |-> <<>>, result |-> "none"]

\* cancel_all_orders is called and awaits get_orders
CancelAllCall ==
    /\ client = "ready"
    /\ ca.pc \in {"idle", "done"}
    /\ ca' = [IdleCA EXCEPT !.pc = "fetch"]
    /\ UNCHANGED <<storeVars, orderVars, req, authVars, laterVars>>

\* get_orders raises: nothing encloses the await, the exception leaves the call
CancelAllFetchRaise(exc) ==
    /\ ca.pc = "fetch"
    /\ ca' = [ca EXCEPT !.pc = "done", !.result = exc]
    /\ UNCHANGED <<storeVars, orderVars, req, authVars, laterVars>>

\* get_orders returns: filter, then the first cancel request (or the return, when
\* nothing is open)
CancelAllFetched(book) ==
    /\ ca.pc = "fetch"
    /\ LET orders == ToOrders(book)
           open == OpenOrders(orders)
       IN  ca' = IF open = <<>>
                 THEN [ca EXCEPT !.pc = "done", !.orders = orders, !.result = "returned"]
                 ELSE [ca EXCEPT !.pc = "cancel", !.orders = orders, !.open = open,
                                 !.started = <<open[1].id>>]
    /\ UNCHANGED <<storeVars, orderVars, req, authVars, laterVars>>

\* the awaited cancel_order ends; the loop appends the id to cancelled or failed
\* and sends the next request, or returns after the last one
CancelAllNext(ok) ==
    /\ ca.pc = "cancel"
    /\ LET k == Len(ca.replies) + 1
           id == ca.open[k].id
           done == [ca EXCEPT !.replies = Append(@, [id |-> id, ok |-> ok]),
                              !.cancelled = IF ok THEN Append(@, id) ELSE @,
                              !.failed = IF ok THEN @ ELSE Append(@, id)]
       IN  ca' = IF k = Len(ca.open)
                 THEN [done EXCEPT !.pc = "done", !.result = "returned"]
                 ELSE [done EXCEPT !.started = Append(@, ca.open[k + 1].id)]
    /\ UNCHANGED <<storeVars, orderVars, req, authVars, laterVars>>

-----------------------------------------------------------------------------
(* AsyncTTConnect.close_all_positions *)

\* Largest position book the broker returns.
MaxPositions == 2

\* netqty as the vendor sends it: a decimal string, or one int() rejects
RawQtys == {<<"int", 50>>, <<"int", -100>>, <<"int", 0>>, <<"text", 0>>}

\* _i: int(val), 0 for an empty value or one that does not parse
ToInt(raw) == IF raw[1] = "int" THEN raw[2] ELSE 0

Abs(n) == IF n < 0 THEN -n ELSE n

\* raw position rows: the i-th row is for symbol i; a row may lack the exchange
\* key or the producttype key
RowShapes == {"full", "no_exchange", "no_producttype"}
PositionBooks ==
    UNION {[1..n -> [netqty : RawQtys, shape : RowShapes]] : n \in 0..MaxPositions}

\* to_position: Exchange(raw["exchange"]) raises on a row without exchange
ToPosition(row, sym) ==
    IF row.shape = "no_exchange" THEN [status |-> "KeyError", qty |-> 0, symbol |-> sym]
    ELSE [status |-> "ok", qty |-> ToInt(row.netqty), symbol |-> sym]

\* to_close_position_params: pos_raw["producttype"] raises on a row without it
ToClosePositionParams(row, sym, qty, side) ==
    IF row.shape = "no_producttype" THEN [status |-> "KeyError"]
    ELSE [status |-> "ok", tradingsymbol |-> sym, transactiontype |-> side,
          ordertype |-> "MARKET", quantity |-> qty]

\* sent: payloads handed to adapter.place_order; result: "returned" with
\* (placed, failed), or the exception that left the call
IdleCP ==
    [pc |-> "idle", rows |-> <<>>, idx |-> 0, sent |-> <<>>, placed |-> <<>>,
     failed |-> <<>>, result |-> "none"]

\* the loop from row k on, up to its next await: rows are normalised and rows
\* of quantity 0 skipped; an exception of to_position or to_close_position_params
\* is outside the try block and leaves the call
RECURSIVE LoopFrom(_, _)
LoopFrom(c, k) ==
    IF k > Len(c.rows) THEN [c EXCEPT !.pc = "done", !.idx = k, !.result = "returned"]
    ELSE LET position == ToPosition(c.rows[k], k)
         IN  IF position.status # "ok"
             THEN [c EXCEPT !.pc = "done", !.idx = k, !.result = position.status]
             ELSE IF position.qty = 0 THEN LoopFrom(c, k + 1)
             ELSE LET side == IF position.qty > 0 THEN "SELL" ELSE "BUY"
                      params == ToClosePositionParams(c.rows[k], k, Abs(position.qty), side)
                  IN  IF params.status # "ok"
                      THEN [c EXCEPT !.pc = "done", !.idx = k, !.result = params.status]
                      ELSE [c EXCEPT !.pc = "place", !.idx = k,
                                     !.sent = Append(@, params)]

\* close_all_positions is called and awaits get_positions
CloseAllCall ==
    /\ client = "ready"
    /\ cp.pc \in {"idle", "done"}
    /\ cp' = [IdleCP EXCEPT !.pc = "fetch"]
    /\ UNCHANGED <<storeVars, orderVars, req, authVars, cancelVars, streamVars, tailVars>>

\* get_positions raises
CloseAllFetchRaise(exc) ==
    /\ cp.pc = "fetch"
    /\ cp' = [cp EXCEPT !.pc = "done", !.result = exc]
    /\ UNCHANGED <<storeVars, orderVars, req, authVars, cancelVars, streamVars, tailVars>>

\* get_positions returns and the loop runs up to its first place_order
CloseAllFetched(book) ==
    /\ cp.pc = "fetch"
    /\ cp' = LoopFrom([cp EXCEPT !.rows = book], 1)
    /\ UNCHANGED <<storeVars, orderVars, req, authVars, cancelVars, streamVars, tailVars>>

\* the awaited place_order ends: with an order id, with an exception, or with a
\* response lacking data.orderid (to_order_id raises inside the try block);
\* then the loop goes on
CloseAllNext(outcome) ==
    /\ cp.pc = "place"
    /\ LET k == cp.idx
           c == IF outcome = "placed"
                THEN [cp EXCEPT !.placed = Append(@, <<"id", k>>)]
                ELSE [cp EXCEPT !.failed = Append(@, k)]
       IN  cp' = LoopFrom(c, k + 1)
    /\ UNCHANGED <<storeVars, orderVars, req, authVars, cancelVars, streamVars, tailVars>>

-----------------------------------------------------------------------------
(* AngelOneWebSocket: subscription ledger, reconnect loop, tick decoding *)

\* Frames one streaming client receives over its lifetime.
MaxFrames == 2

\* Completed back-off sleeps remembered since the last reset of the delay.
MaxSleeps == 7

\* Completed back-off sleeps (since the last reset) while frames are streamed.
MaxStreamSleeps == 1

INITIAL_RECONNECT_DELAY == 2
MAX_RECONNECT_DELAY == 60
MODE_LTP == 1
MODE_QUOTE == 2
MODE_SNAP_QUOTE == 3
LTP_MIN == 51
QUOTE_MIN == 123
SNAP_QUOTE_MIN == 347

\* _EXCHANGE_TYPE.get(resolved.exchange, 1)
ExchangeType(exchange) ==
    CASE exchange = "NSE" -> 1
      [] exchange = "NFO" -> 2
      [] exchange = "BSE" -> 3
      [] exchange = "BFO" -> 4
      [] exchange = "MCX" -> 5
      [] OTHER -> 1

\* (Instrument, ResolvedInstrument) pairs a caller subscribes to
Subs ==
    {[instrument |-> Equity("NSE", "RELIANCE"), token |-> "2885", exchange |-> "NSE"],
     [instrument |-> Future("NSE", "NIFTY", Expiry1), token |-> "35001", exchange |-> "NFO"]}

EmptyLedger == [t \in {} |-> 0]

\* dict assignment for every pair of the list (g holds the pairs)
Put(f, g) == [t \in DOMAIN f \cup DOMAIN g |-> IF t \in DOMAIN g THEN g[t] ELSE f[t]]

\* dict.pop(t, None) for every token of the list
Pop(f, keys) == [t \in DOMAIN f \ keys |-> f[t]]

\* variant of the pruning of unsubscribe that leaves _token_exchange_type alone
PruneMapOnly(tm, tet, tokens) == <<Pop(tm, tokens), tet>>

\* unsubscribe, lines 123-125: both maps lose the tokens
Prune(tm, tet, tokens) == <<Pop(tm, tokens), Pop(tet, tokens)>>

\* variant of _build_token_list that files every token under exchangeType 1
BuildTokenListDefault(tet, tokens) ==
    IF tokens = {} THEN {} ELSE {[exchangeType |-> 1, tokens |-> tokens]}

\* _build_token_list: tokens grouped by their ledger exchangeType (1 if unknown)
BuildTokenList(tet, tokens) ==
    LET Et(t) == IF t \in DOMAIN tet THEN tet[t] ELSE 1
    IN  {[exchangeType |-> et, tokens |-> {t \in tokens : Et(t) = et}] :
            et \in {Et(t) : t \in tokens}}

\* the JSON message of _send_subscribe (action 1) / _send_unsubscribe (action 0)
Message(action, token_list) ==
    [action |-> action, mode |-> MODE_QUOTE, tokenList |-> token_list]

\* back-off after a completed sleep
NextDelayUncapped(d) == d * 2
NextDelay(d) == IF d * 2 < MAX_RECONNECT_DELAY THEN d * 2 ELSE MAX_RECONNECT_DELAY

\* a binary packet: the token field is the token's ASCII text padded with NULs
Packet(token, m, len) == [token_bytes |-> <<token, "NUL">>, mode |-> m, len |-> len]

\* data[2:27].split(b"\x00")[0].decode(...).strip()
DecodeToken(token_bytes) == token_bytes[1]

\* volume and oi tell whether the tick carries those fields
NoTick == [instrument |-> NoInst, volume |-> FALSE, oi |-> FALSE]

\* variant of _parse_binary that does not look the token up in the ledger
ParseBinaryAnyToken(tm, data) ==
    IF data.len < LTP_MIN THEN NoTick
    ELSE [instrument |-> IF DecodeToken(data.token_bytes) \in DOMAIN tm
                         THEN tm[DecodeToken(data.token_bytes)]
                         ELSE Equity("NSE", DecodeToken(data.token_bytes)),
          volume |-> data.mode >= MODE_QUOTE /\ data.len >= QUOTE_MIN,
          oi |-> data.mode >= MODE_SNAP_QUOTE /\ data.len >= SNAP_QUOTE_MIN]

\* _parse_binary: None for a packet under 51 bytes or for an unknown token; else
\* a Tick, with volume from 123 bytes on in modes >= 2 and oi, bid, ask from 347
\* bytes on in mode 3
ParseBinary(tm, data) ==
    IF data.len < LTP_MIN THEN NoTick
    ELSE IF DecodeToken(data.token_bytes) \notin DOMAIN tm THEN NoTick
    ELSE [instrument |-> tm[DecodeToken(data.token_bytes)],
          volume |-> data.mode >= MODE_QUOTE /\ data.len >= QUOTE_MIN,
          oi |-> data.mode >= MODE_SNAP_QUOTE /\ data.len >= SNAP_QUOTE_MIN]

\* variant of the dispatch that puts the newest callback first
DispatchFirst(q, x) == <<x>> \o q

\* asyncio.create_task: the new task joins the end of the ready queue
Dispatch(q, x) == Append(q, x)

NoPacket == [token_bytes |-> <<"", "NUL">>, mode |-> 0, len |-> 0]

\* closed: _closed; sock: _ws (none, a live socket, or one already closed);
\* pc: where the _run task stands ("none": no task, "done": finished);
\* cancel: task.cancel() was called and not yet delivered; closing: a close()
\* call; ping: the ping task; delay: _reconnect_delay; unsub: tokens of an
\* unsubscribe awaiting its send; arrived: number of packets received;
\* dispatched: ticks handed to on_tick; cbs: state of each on_tick task;
\* slept: completed sleeps since the last reset of the delay;
\* on_tick: _on_tick; latest: the callback the last subscribe call passed;
\* tocb: the callback each dispatched tick was handed to; acked: tracked
\* tokens put into a subscribe message on the connection now open.
\* What the last step did: out: messages it sent; opened: it opened a
\* connection; frame: the packet it received; dup: it was a subscribe naming
\* a token already tracked
IdleWS ==
    [closed |-> FALSE, sock |-> "none", pc |-> "none", cancel |-> FALSE,
     closing |-> "no", ping |-> "none", delay |-> INITIAL_RECONNECT_DELAY,
     unsub |-> {}, arrived |-> 0, dispatched |-> <<>>, cbs |-> <<>>, slept |-> <<>>,
     on_tick |-> "none", latest |-> "none", tocb |-> <<>>, acked |-> {},
     out |-> <<>>, opened |-> FALSE, frame |-> NoPacket, dup |-> FALSE]

Callbacks == {"cb1", "cb2"}

\* variant of the assignment that keeps a callback once one is set
KeepOnTick(old, on_tick) == IF old = "none" THEN on_tick ELSE old

\* self._on_tick = on_tick
SetOnTick(old, on_tick) == on_tick

\* variant of the resubscribe list that names no token
TrackedNone(tm) == {}

\* list(self._token_map.keys()): the tokens resubscribed on (re)connect
TrackedTokens(tm) == DOMAIN tm

StreamIdle ==
    /\ token_map = EmptyLedger
    /\ token_exchange_type = EmptyLedger
    /\ ws = IdleWS

StreamFrame ==
    UNCHANGED <<storeVars, orderVars, req, authVars, cancelVars, closeVars, tailVars>>

Quiet(w) == [w EXCEPT !.out = <<>>, !.opened = FALSE, !.frame = NoPacket, !.dup = FALSE]

\* `while not self._closed` and _connect_and_run up to its first await: without
\* a session it raises, which leads to the sleep
EnterLoop(w) ==
    IF w.closed THEN [w EXCEPT !.pc = "done"]
    ELSE IF session = NoSession THEN [w EXCEPT !.pc = "sleep"]
    ELSE [w EXCEPT !.pc = "connect"]

Remember(slept, d) == IF Len(slept) < MaxSleeps THEN Append(slept, d) ELSE slept

\* subscribe: on a socket already closed the send raises after the maps changed
StreamSubscribe(subs, on_tick) ==
    /\ LET tokens == {x.token : x \in subs}
           tm == Put(token_map,
                     [t \in tokens |-> (CHOOSE x \in subs : x.token = t).instrument])
           tet == Put(token_exchange_type,
                      [t \in tokens |-> ExchangeType((CHOOSE x \in subs : x.token = t).exchange)])
           w == [Quiet(ws) EXCEPT !.dup = tokens \cap DOMAIN token_map # {},
                                  !.on_tick = SetOnTick(@, on_tick), !.latest = on_tick]
       IN  /\ token_map' = tm
           /\ token_exchange_type' = tet
           /\ ws' = IF w.pc \in {"none", "done"}
                    THEN [w EXCEPT !.closed = FALSE, !.pc = "start", !.closing = "no"]
                    ELSE IF w.sock = "live"
                    THEN [w EXCEPT !.out = <<Message(1, BuildTokenList(tet, tokens))>>,
                                   !.acked = @ \cup tokens]
                    ELSE w
    /\ StreamFrame

\* unsubscribe up to its await: without a socket the maps are pruned at once;
\* on a socket already closed the send raises and nothing changes
StreamUnsubscribe(instruments) ==
    /\ ws.unsub = {}
    /\ ws.sock # "dead"
    /\ LET tokens == {t \in DOMAIN token_map : token_map[t] \in instruments}
       IN  /\ tokens # {}
           /\ IF ws.sock = "none"
              THEN /\ token_map' = Prune(token_map, token_exchange_type, tokens)[1]
                   /\ token_exchange_type' = Prune(token_map, token_exchange_type, tokens)[2]
                   /\ ws' = [Quiet(ws) EXCEPT !.acked = @ \ tokens]
              ELSE /\ ws' = [Quiet(ws) EXCEPT !.unsub = tokens,
                                !.out = <<Message(0, BuildTokenList(token_exchange_type, tokens))>>]
                   /\ UNCHANGED <<token_map, token_exchange_type>>
    /\ StreamFrame

\* the send of unsubscribe ends: the maps are pruned, unless it raised
StreamUnsubscribeDone(ok) ==
    /\ ws.unsub # {}
    /\ ws' = [Quiet(ws) EXCEPT !.unsub = {},
                               !.acked = IF ok THEN @ \ ws.unsub ELSE @]
    /\ IF ok
       THEN /\ token_map' = Prune(token_map, token_exchange_type, ws.unsub)[1]
            /\ token_exchange_type' = Prune(token_map, token_exchange_type, ws.unsub)[2]
       ELSE UNCHANGED <<token_map, token_exchange_type>>
    /\ StreamFrame

\* close up to its await
StreamClose ==
    /\ ws.closing # "awaiting"
    /\ ws' = IF ws.pc \in {"none", "done"}
             THEN [Quiet(ws) EXCEPT !.closed = TRUE, !.closing = "returned"]
             ELSE [Quiet(ws) EXCEPT !.closed = TRUE, !.closing = "awaiting", !.cancel = TRUE]
    /\ UNCHANGED <<token_map, token_exchange_type>>
    /\ StreamFrame

\* CancelledError reaches the task at the await it stands at. Only the receive
\* loop is inside try/finally: there the ping task is cancelled and _ws
\* cleared; at the resubscribe send the socket is closed by the context manager
\* while _ws keeps referring to it
TaskCancelled ==
    /\ ws.cancel
    /\ ws' = CASE ws.pc = "recv" ->
                    [Quiet(ws) EXCEPT !.pc = "done", !.cancel = FALSE, !.ping = "cancelled",
                                      !.sock = "none", !.acked = {}]
               [] ws.pc = "subscribe" ->
                    [Quiet(ws) EXCEPT !.pc = "done", !.cancel = FALSE, !.sock = "dead",
                                      !.acked = {}]
               [] OTHER -> [Quiet(ws) EXCEPT !.pc = "done", !.cancel = FALSE]
    /\ UNCHANGED <<token_map, token_exchange_type>>
    /\ StreamFrame

\* `await self._task` of close ends
CloseReturn ==
    /\ ws.closing = "awaiting"
    /\ ws.pc = "done"
    /\ ws' = [Quiet(ws) EXCEPT !.closing = "returned"]
    /\ UNCHANGED <<token_map, token_exchange_type>>
    /\ StreamFrame

\* the task created by subscribe runs for the first time
TaskStart ==
    /\ ws.pc = "start"
    /\ ~ws.cancel
    /\ ws' = EnterLoop(Quiet(ws))
    /\ UNCHANGED <<token_map, token_exchange_type>>
    /\ StreamFrame

\* websockets.connect succeeds: _ws is set and every tracked token resubscribed
ConnectOk ==
    /\ ws.pc = "connect"
    /\ ~ws.cancel
    /\ LET tokens == IF DOMAIN token_map # {} THEN TrackedTokens(token_map) ELSE {}
           token_list == BuildTokenList(token_exchange_type, tokens)
       IN  ws' = IF token_list # {}
                 THEN [Quiet(ws) EXCEPT !.sock = "live", !.pc = "subscribe",
                                        !.opened = TRUE, !.acked = tokens,
                                        !.out = <<Message(1, token_list)>>]
                 ELSE [Quiet(ws) EXCEPT !.sock = "live", !.pc = "recv", !.opened = TRUE,
                                        !.ping = "running"]
    /\ UNCHANGED <<token_map, token_exchange_type>>
    /\ StreamFrame

\* websockets.connect raises
ConnectFail ==
    /\ ws.pc = "connect"
    /\ ~ws.cancel
    /\ ws' = [Quiet(ws) EXCEPT !.pc = "sleep"]
    /\ UNCHANGED <<token_map, token_exchange_type>>
    /\ StreamFrame

\* the resubscribe send ends; an exception leaves `async with` before the
\* try/finally, so _ws is not cleared
ResubscribeSent(ok) ==
    /\ ws.pc = "subscribe"
    /\ ~ws.cancel
    /\ ws' = IF ok THEN [Quiet(ws) EXCEPT !.pc = "recv", !.ping = "running"]
             ELSE [Quiet(ws) EXCEPT !.pc = "sleep", !.sock = "dead", !.acked = {}]
    /\ UNCHANGED <<token_map, token_exchange_type>>
    /\ StreamFrame

\* one binary message of `async for message in ws`
Receive(data) ==
    /\ ws.pc = "recv"
    /\ ~ws.cancel
    /\ ws.arrived < MaxFrames
    /\ LET tick == ParseBinary(token_map, data)
           w == [Quiet(ws) EXCEPT !.arrived = @ + 1, !.frame = data]
       IN  ws' = IF tick = NoTick \/ ws.on_tick = "none" THEN w
                 ELSE [w EXCEPT !.dispatched = Dispatch(@, tick),
                                !.tocb = Append(@, ws.on_tick),
                                !.cbs = Append(@, "pending")]
    /\ UNCHANGED <<token_map, token_exchange_type>>
    /\ StreamFrame

\* the connection ends: cleanly (the iteration stops) or with an error
SessionEnd(clean) ==
    /\ ws.pc = "recv"
    /\ ~ws.cancel
    /\ ws' = IF clean
             THEN [Quiet(ws) EXCEPT !.pc = "sleep", !.ping = "cancelled", !.sock = "none",
                                    !.acked = {},
                                    !.delay = INITIAL_RECONNECT_DELAY, !.slept = <<>>]
             ELSE [Quiet(ws) EXCEPT !.pc = "sleep", !.ping = "cancelled", !.sock = "none",
                                    !.acked = {}]
    /\ UNCHANGED <<token_map, token_exchange_type>>
    /\ StreamFrame

\* asyncio.sleep(self._reconnect_delay) ends; the delay doubles; next round
SleepDone ==
    /\ ws.pc = "sleep"
    /\ ~ws.cancel
    /\ ws' = EnterLoop([Quiet(ws) EXCEPT !.delay = NextDelay(@),
                                         !.slept = Remember(@, ws.delay)])
    /\ UNCHANGED <<token_map, token_exchange_type>>
    /\ StreamFrame

\* the event loop starts the oldest on_tick task not yet started
CallbackStart ==
    /\ \E i \in DOMAIN ws.cbs :
          /\ ws.cbs[i] = "pending"
          /\ \A j \in 1..(i - 1) : ws.cbs[j] # "pending"
          /\ ws' = [Quiet(ws) EXCEPT !.cbs[i] = "running"]
    /\ UNCHANGED <<token_map, token_exchange_type>>
    /\ StreamFrame

\* a running on_tick returns or raises: either way its task is done, and its
\* result or exception is read by nobody; one that never returns stays running
CallbackEnd(i) ==
    /\ i \in DOMAIN ws.cbs
    /\ ws.cbs[i] = "running"
    /\ ws' = [Quiet(ws) EXCEPT !.cbs[i] = "done"]
    /\ UNCHANGED <<token_map, token_exchange_type>>
    /\ StreamFrame

-----------------------------------------------------------------------------
(* REST calls of AngelOneAdapter and the header dicts they carry *)

\* Adapter REST methods invoked on one adapter.
MaxCalls == 2

Calls == 1..MaxCalls

\* the value of the Authorization header for a token
Bearer(tok) == <<"Bearer", tok>>

\* variant of headers in which the auth object keeps one dict and updates it
HeadersShared(heap, s) ==
    IF s.access_token \in {"-", ""}
    THEN [status |-> "AuthenticationError", heap |-> heap, ref |-> 0]
    ELSE IF heap = <<>>
    THEN [status |-> "ok", heap |-> <<Bearer(s.access_token)>>, ref |-> 1]
    ELSE [status |-> "ok", heap |-> [heap EXCEPT ![1] = Bearer(s.access_token)], ref |-> 1]

\* AngelOneAuth.headers: raises without a token; else a dict literal, hence a
\* new dict object at every access, holding the token of that moment.
\* heap is the sequence of dict objects built so far, ref the new one's index
Headers(heap, s) ==
    IF s.access_token \in {"-", ""}
    THEN [status |-> "AuthenticationError", heap |-> heap, ref |-> 0]
    ELSE [status |-> "ok", heap |-> Append(heap, Bearer(s.access_token)),
          ref |-> Len(heap) + 1]

\* a REST call: where it stands, the dict it passes to _request and the
\* headers of the request it put on the wire last. History: at_call is the
\* token current when the adapter method was invoked, rotated tells that a
\* request of the call went out after the session token had changed
IdleCall ==
    [pc |-> "idle", ref |-> 0, at_call |-> "-", attempt |-> 0, wire |-> "none",
     rotated |-> FALSE, result |-> "none"]

IdleHD == [heap |-> <<>>, calls |-> [c \in Calls |-> IdleCall]]

\* an adapter REST method is invoked: headers=self.auth.headers is evaluated,
\* then _request starts
RestCall(c) ==
    /\ hd.calls[c].pc = "idle"
    /\ LET h == Headers(hd.heap, session)
       IN  hd' = IF h.status # "ok"
                 THEN [hd EXCEPT !.calls[c].pc = "done", !.calls[c].result = h.status,
                                 !.calls[c].at_call = session.access_token]
                 ELSE [heap |-> h.heap,
                       calls |-> [hd.calls EXCEPT ![c].pc = "flight", ![c].ref = h.ref,
                                                  ![c].at_call = session.access_token,
                                                  ![c].attempt = 1]]
    /\ UNCHANGED <<storeVars, orderVars, req, authVars, cancelVars, closeVars, streamVars,
                   fs, pr>>

\* one `await self._client.request(method, url, **kwargs)` of _request and what
\* follows it: a retry after a timeout or a 5xx answer while attempts are left,
\* or the end of the call
RestAttempt(c, retry) ==
    /\ hd.calls[c].pc = "flight"
    /\ LET k == hd.calls[c]
           late == k.rotated \/ session.access_token # k.at_call
       IN  hd' = IF retry /\ k.attempt < MAX_RETRIES
                 THEN [hd EXCEPT !.calls[c].wire = hd.heap[k.ref],
                                 !.calls[c].rotated = late,
                                 !.calls[c].attempt = @ + 1]
                 ELSE [hd EXCEPT !.calls[c].wire = hd.heap[k.ref],
                                 !.calls[c].rotated = late,
                                 !.calls[c].attempt = 0,
                                 !.calls[c].pc = "done",
                                 !.calls[c].result = IF retry THEN "TTConnectError"
                                                     ELSE "ended"]
    /\ UNCHANGED <<storeVars, orderVars, req, authVars, cancelVars, closeVars, streamVars,
                   fs, pr>>

\* AngelOneAuth.login and AngelOneAuth.refresh called while REST calls are
\* under way: of their effects only the tokens matter to the calls
TokenLogin ==
    /\ authObj = "ready"
    /\ session' \in {LoginAuto(config, session, today, reply).session :
                          reply \in LoginReplies}
    /\ UNCHANGED <<storeVars, orderVars, req, cancelVars, laterVars, config, authObj, mode,
                   sessions, net, aret>>

TokenRefresh ==
    /\ authObj = "ready"
    /\ session' \in {RefreshAuto(config, session, today, x[1], x[2], x[3]).session :
                          x \in RenewReplies \X LoginReplies \X LoginReplies}
    /\ UNCHANGED <<storeVars, orderVars, req, cancelVars, laterVars, config, authObj, mode,
                   sessions, net, aret>>

-----------------------------------------------------------------------------
(* FileSessionStore: the session file of one broker *)

\* json.dumps(data, indent=2) of a session: the text, piece by piece
Dumps(s) ==
    <<<<"{">>, <<"access_token", s.access_token>>, <<"refresh_token", s.refresh_token>>,
      <<"feed_token", s.feed_token>>, <<"expires_at", s.expires_at>>, <<"}">>>>

\* json.loads of a text and the SessionData built from it; anything but a
\* complete document raises, and so does a document without access_token
Loads(text) ==
    IF Len(text) = 6 /\ text[1] = <<"{">> /\ text[6] = <<"}">>
       /\ \A i \in 2..5 : Len(text[i]) = 2
       /\ text[2][1] = "access_token"
    THEN [status |-> "ok",
          session |-> SessionData(text[2][2], text[3][2], text[4][2], text[5][2])]
    ELSE [status |-> "JSONDecodeError", session |-> NoSession]

\* the file (whether it exists, its text), the save under way (pc, the text still to
\* be written) and, as history, the session of the last save that completed
\* (prev), the one of the last save started (new), whether a save was cut
\* short, and what the last load returned (a sequence holding the result,
\* NoSession for None; empty when no load has run since the last change)
IdleFS ==
    [exists |-> FALSE, file |-> <<>>, pc |-> "idle", todo |-> <<>>, prev |-> NoSession,
     new |-> NoSession, cut |-> FALSE, got |-> <<>>, during |-> FALSE]

FileFrame ==
    UNCHANGED <<storeVars, orderVars, req, authVars, cancelVars, closeVars, streamVars,
                hd, pr>>

Take(q, n) == SubSeq(q, 1, n)
Drop(q, n) == SubSeq(q, n + 1, Len(q))

\* save(): path.write_text opens the file for writing, which creates or
\* empties it
FileSaveOpen(s) ==
    /\ fs.pc = "idle"
    /\ fs' = [fs EXCEPT !.exists = TRUE, !.file = <<>>, !.pc = "writing", !.todo = Dumps(s), !.new = s,
                        !.got = <<>>, !.during = FALSE]
    /\ FileFrame

\* ... then writes the text; the data reach the file in one piece or in several
FileSaveWrite(n) ==
    /\ fs.pc = "writing"
    /\ n \in 1..Len(fs.todo)
    /\ fs' = [fs EXCEPT !.file = @ \o Take(fs.todo, n), !.todo = Drop(@, n),
                        !.got = <<>>, !.during = FALSE]
    /\ FileFrame

\* ... and closes it; save returns
FileSaveReturn ==
    /\ fs.pc = "writing"
    /\ fs.todo = <<>>
    /\ fs' = [fs EXCEPT !.pc = "idle", !.prev = fs.new, !.cut = FALSE, !.got = <<>>,
                        !.during = FALSE]
    /\ FileFrame

\* the process is stopped inside save(): the file stays as it is
FileSaveInterrupted ==
    /\ fs.pc = "writing"
    /\ fs' = [fs EXCEPT !.pc = "idle", !.todo = <<>>, !.cut = TRUE, !.got = <<>>,
                        !.during = FALSE]
    /\ FileFrame

\* load(), from this process or another one using the same cache directory
FileLoad ==
    /\ LET parsed == Loads(fs.file)
       IN  fs' = [fs EXCEPT !.got = IF ~fs.exists \/ parsed.status # "ok"
                                    THEN <<NoSession>>
                                    ELSE <<parsed.session>>,
                            !.during = (fs.pc = "writing")]
    /\ FileFrame

\* clear(): the file is removed
FileClear ==
    /\ fs.pc = "idle"
    /\ fs' = [IdleFS EXCEPT !.got = <<>>]
    /\ FileFrame

-----------------------------------------------------------------------------
(* The vendor parsers: source rows to ParsedInstruments *)

\* Source rows in one instrument dump.
MaxRows == 1

EQUITY_EXCHANGES == {"NSE", "BSE"}
FUT_EXCHANGES == {"NFO", "BFO"}
UNDERLYING_EXCHANGE == [e \in FUT_EXCHANGES |-> IF e = "NFO" THEN "NSE" ELSE "BSE"]

\* result.<group>.append(row)
AppendTo(result, group, row) == [result EXCEPT ![group] = Append(@, row)]

\* rows of Zerodha's CSV dump: the columns parse() and _parse_option read,
\* strike being the number the strike column spells
ZerodhaRows ==
    [exchange : {"NSE", "NFO", "BFO", "MCX"}, segment : {"INDICES", "NSE", "NFO-OPT"},
     instrument_type : {"EQ", "FUT", "CE", "PE"}, name : {"NIFTY"}, strike : {0, 23000}]

\* Zerodha's _parse_option: strike = float(row["strike"])
ZerodhaParseOption(row) ==
    [exchange |-> row.exchange, symbol |-> row.name, segment |-> row.segment,
     strike |-> row.strike, option_type |-> row.instrument_type,
     underlying_exchange |-> UNDERLYING_EXCHANGE[row.exchange]]

\* the other per-type parsers, which copy exchange, name and segment
ZerodhaParseOther(row) ==
    [exchange |-> row.exchange, symbol |-> row.name, segment |-> row.segment]

\* one pass of the loop of Zerodha's parse()
ZerodhaParseRow(result, row) ==
    IF row.exchange \in EQUITY_EXCHANGES
    THEN IF row.segment = "INDICES" THEN AppendTo(result, "indices", ZerodhaParseOther(row))
         ELSE IF row.instrument_type = "EQ"
         THEN AppendTo(result, "equities", ZerodhaParseOther(row))
         ELSE result
    ELSE IF row.exchange \in FUT_EXCHANGES
    THEN IF row.instrument_type = "FUT"
         THEN AppendTo(result, "futures", ZerodhaParseOther(row))
         ELSE IF row.instrument_type \in {"CE", "PE"}
         THEN AppendTo(result, "options", ZerodhaParseOption(row))
         ELSE result
    ELSE result

\* rows of AngelOne's instrument master: strike is the paise figure (strike
\* times 100; a missing strike reads as 0), suffix the end of the symbol
AngelOneRows ==
    [exch_seg : {"NSE", "NFO", "BFO", "MCX"},
     instrumenttype : {"", "AMXIDX", "FUTIDX", "OPTIDX", "OPTSTK"},
     name : {"NIFTY"}, suffix : {"-EQ", "-GS", "CE", "PE"}, strike : {0, 2300000}]

\* broker_sym[-2:]
LastTwo(suffix) ==
    CASE suffix = "-EQ" -> "EQ"
      [] suffix = "-GS" -> "GS"
      [] OTHER -> suffix

\* AngelOne's _parse_option: strike = float(row.get("strike") or 0) / 100.0
AngelOneParseOption(row) ==
    [exchange |-> row.exch_seg, symbol |-> row.name, segment |-> "OPT",
     strike |-> row.strike \div 100, option_type |-> LastTwo(row.suffix),
     underlying_exchange |-> UNDERLYING_EXCHANGE[row.exch_seg]]

AngelOneParseOther(row, segment) ==
    [exchange |-> row.exch_seg, symbol |-> row.name, segment |-> segment]

\* one pass of the loop of AngelOne's parse()
AngelOneParseRow(result, row) ==
    IF row.instrumenttype = "AMXIDX" /\ row.exch_seg \in EQUITY_EXCHANGES
    THEN AppendTo(result, "indices", AngelOneParseOther(row, "INDICES"))
    ELSE IF row.instrumenttype = "" /\ row.exch_seg \in EQUITY_EXCHANGES
    THEN IF row.suffix = "-EQ" \/ row.suffix # "-GS"
         THEN AppendTo(result, "equities", AngelOneParseOther(row, row.exch_seg))
         ELSE result
    ELSE IF row.instrumenttype \in {"FUTIDX", "FUTSTK"} /\ row.exch_seg \in FUT_EXCHANGES
    THEN AppendTo(result, "futures", AngelOneParseOther(row, "FUT"))
    ELSE IF row.instrumenttype \in {"OPTIDX", "OPTSTK"} /\ row.exch_seg \in FUT_EXCHANGES
    THEN AppendTo(result, "options", AngelOneParseOption(row))
    ELSE result

\* parse(): the loop over the rows of the dump
RECURSIVE VendorParse(_, _, _)
VendorParse(vendor, result, rows) ==
    IF rows = <<>> THEN result
    ELSE VendorParse(vendor,
                     IF vendor = "zerodha" THEN ZerodhaParseRow(result, Head(rows))
                     ELSE AngelOneParseRow(result, Head(rows)),
                     Tail(rows))

\* dumps of up to MaxRows rows
RECURSIVE DumpsOf(_, _)
DumpsOf(rows, n) ==
    IF n = 0 THEN {<<>>}
    ELSE DumpsOf(rows, n - 1) \cup
         {Append(d, r) : d \in {x \in DumpsOf(rows, n - 1) : Len(x) = n - 1}, r \in rows}

\* the dump a fetch_instruments call downloaded and what parse made of it
IdlePR == [pc |-> "idle", vendor |-> "none", rows |-> <<>>, result |-> EmptyParsed]

ParseFrame ==
    UNCHANGED <<storeVars, orderVars, req, authVars, cancelVars, closeVars, streamVars,
                hd, fs>>

\* fetch_instruments: the download returns
Download(vendor, rows) ==
    /\ pr.pc = "idle"
    /\ pr' = [pc |-> "downloaded", vendor |-> vendor, rows |-> rows, result |-> EmptyParsed]
    /\ ParseFrame

\* fetch_instruments: return parse(...)
ParseStep ==
    /\ pr.pc = "downloaded"
    /\ pr' = [pr EXCEPT !.pc = "parsed",
                        !.result = VendorParse(pr.vendor, EmptyParsed, pr.rows)]
    /\ ParseFrame

TailIdle ==
    /\ hd = IdleHD
    /\ fs = IdleFS
    /\ pr = IdlePR

-----------------------------------------------------------------------------
(* The store, its refresh lifecycle and the resolver *)

Init ==
    /\ today = 1
    /\ on_stale \in {"fail", "warn"}
    /\ committed = EmptyDB
    /\ conn = EmptyDB
    /\ connOpen = FALSE
    /\ client = "none"
    /\ cache = {}
    /\ task = [t \in Tasks |-> IdleTask]
    /\ ret = [RetInit("ok", "none") EXCEPT !.op = "none"]
    /\ pre = EmptyDB
    /\ phase = "none"
    /\ loaded = EmptyParsed
    /\ po = IdlePO
    /\ caps = ANGELONE_CAPABILITIES
    /\ req = IdleReq
    /\ AuthIdle
    /\ ca = IdleCA
    /\ cp = IdleCP
    /\ StreamIdle
    /\ TailIdle

Step(t) ==
    \/ ClientInit(t)
    \/ IsStaleStep(t)
    \/ FetchStep(t)
    \/ TruncateStep(t)
    \/ TruncateCommit(t)
    \/ InsertStmt(t)
    \/ BuildLookup(t)
    \/ InsertCommit(t)
    \/ SetMetaStmt(t)
    \/ MetaCommit(t)
    \/ RefreshRaise(t)
    \/ HasAnyDataStep(t)
    \/ RefreshCancel(t)

Next ==
    \/ Step("t1")
    \/ \E inst \in Queries : Resolve(inst)
    \/ Close
    \/ Crash
    \/ Tick

Spec == Init /\ [][Next]_vars

-----------------------------------------------------------------------------
(* The order path of a ready client over a loaded store *)

FullInput ==
    [indices |-> <<IdxNifty>>, equities |-> <<EqRel>>, futures |-> <<FutNifty>>,
     options |-> <<OptRel>>]

\* init() has returned after a first refresh with FullInput
OrderInit ==
    /\ today = 1
    /\ on_stale = "fail"
    /\ caps \in Vendors
    /\ committed = StoreOf(FullInput, 1, caps.broker_id)
    /\ conn = committed
    /\ connOpen = TRUE
    /\ client = "ready"
    /\ cache = {}
    /\ task = [t \in Tasks |-> IdleTask]
    /\ ret = RetInit("ok", "none")
    /\ pre = EmptyDB
    /\ phase = "completed"
    /\ loaded = FullInput
    /\ po = IdlePO
    /\ req = IdleReq
    /\ AuthIdle
    /\ ca = IdleCA
    /\ cp = IdleCP
    /\ StreamIdle
    /\ TailIdle

OrderNext ==
    \/ \E inst \in Queries, ot \in OrderTypes, pt \in ProductTypes :
         PlaceOrderCall(inst, ot, pt)
    \/ PlaceOrderResolve
    \/ PlaceOrderSend

OrderSpec == OrderInit /\ [][OrderNext]_vars

-----------------------------------------------------------------------------
(* One adapter's _request calls *)

RequestNext ==
    \/ RequestCall
    \/ RequestAttempt
    \/ RequestSleep

RequestSpec == Init /\ [][RequestNext]_vars

-----------------------------------------------------------------------------
(* One auth object: construction, logins and refreshes over two days *)

Configs ==
    [auth_mode : {"-", "manual", "auto", "totp"}, access_token : {"-", "", "tok1"},
     creds : BOOLEAN]

AuthInit ==
    /\ today = 1
    /\ on_stale = "fail"
    /\ committed = EmptyDB
    /\ conn = EmptyDB
    /\ connOpen = FALSE
    /\ client = "none"
    /\ cache = {}
    /\ task = [t \in Tasks |-> IdleTask]
    /\ ret = [RetInit("ok", "none") EXCEPT !.op = "none"]
    /\ pre = EmptyDB
    /\ phase = "none"
    /\ loaded = EmptyParsed
    /\ po = IdlePO
    /\ caps \in Vendors
    /\ req = IdleReq
    /\ config \in Configs
    /\ authObj = "none"
    /\ mode = "-"
    /\ session = NoSession
    /\ sessions = EmptySessions
    /\ net = <<>>
    /\ aret = [op |-> "none", status |-> "ok", hook |-> "none", cached |-> NoSession,
               prev |-> NoSession, at |-> 1]
    /\ ca = IdleCA
    /\ cp = IdleCP
    /\ StreamIdle
    /\ TailIdle

AuthNext ==
    \/ AuthNew
    \/ Login
    \/ Refresh
    \/ \E tok \in {"", "tok1", "tok2"} : ConfigUpdate(tok)
    \/ Tick

AuthSpec == AuthInit /\ [][AuthNext]_vars

-----------------------------------------------------------------------------
(* cancel_all_orders of a ready client *)

CancelNext ==
    \/ CancelAllCall
    \/ \E exc \in {"BrokerError", "AuthenticationError"} : CancelAllFetchRaise(exc)
    \/ \E book \in Books : CancelAllFetched(book)
    \/ \E ok \in BOOLEAN : CancelAllNext(ok)

CancelSpec == OrderInit /\ [][CancelNext]_vars

-----------------------------------------------------------------------------
(* close_all_positions of a ready client *)

CloseNext ==
    \/ CloseAllCall
    \/ \E exc \in {"BrokerError", "AuthenticationError"} : CloseAllFetchRaise(exc)
    \/ \E book \in PositionBooks : CloseAllFetched(book)
    \/ \E outcome \in {"placed", "raised", "no_orderid"} : CloseAllNext(outcome)

CloseSpec == OrderInit /\ [][CloseNext]_vars

-----------------------------------------------------------------------------
(* One streaming client *)

LiveSession == SessionData("jwtL1", "rtL1", "ftL1", <<2>>)

StreamPackets ==
    {Packet(t, MODE_QUOTE, QUOTE_MIN) : t \in {"2885", "35001", "99999"}}

StreamInit ==
    /\ today = 1
    /\ on_stale = "fail"
    /\ committed = EmptyDB
    /\ conn = EmptyDB
    /\ connOpen = FALSE
    /\ client = "none"
    /\ cache = {}
    /\ task = [t \in Tasks |-> IdleTask]
    /\ ret = [RetInit("ok", "none") EXCEPT !.op = "none"]
    /\ pre = EmptyDB
    /\ phase = "none"
    /\ loaded = EmptyParsed
    /\ po = IdlePO
    /\ caps = ANGELONE_CAPABILITIES
    /\ req = IdleReq
    /\ config = NoConfig
    /\ authObj = "ready"
    /\ mode = "auto"
    /\ session \in {NoSession, LiveSession}
    /\ sessions = EmptySessions
    /\ net = <<>>
    /\ aret = [op |-> "none", status |-> "ok", hook |-> "none", cached |-> NoSession,
               prev |-> NoSession, at |-> 1]
    /\ ca = IdleCA
    /\ cp = IdleCP
    /\ StreamIdle
    /\ TailIdle

StreamNext ==
    \/ \E subs \in SUBSET Subs \ {{}} : StreamSubscribe(subs, "cb1")
    \/ \E x \in Subs : StreamUnsubscribe({x.instrument})
    \/ \E ok \in BOOLEAN : StreamUnsubscribeDone(ok)
    \/ StreamClose
    \/ TaskCancelled
    \/ CloseReturn
    \/ TaskStart
    \/ ConnectOk
    \/ ConnectFail
    \/ \E ok \in BOOLEAN : ResubscribeSent(ok)
    \/ \E data \in StreamPackets : Receive(data)
    \/ \E clean \in BOOLEAN : SessionEnd(clean)
    \/ Len(ws.slept) < MaxStreamSleeps /\ SleepDone
    \/ CallbackStart
    \/ \E i \in 1..MaxFrames : CallbackEnd(i)

StreamSpec == StreamInit /\ [][StreamNext]_vars

\* The reconnect loop alone: no frame arrives and nothing is unsubscribed
BackoffNext ==
    \/ \E subs \in SUBSET Subs \ {{}} : StreamSubscribe(subs, "cb1")
    \/ StreamClose
    \/ TaskCancelled
    \/ CloseReturn
    \/ TaskStart
    \/ ConnectOk
    \/ ConnectFail
    \/ \E ok \in BOOLEAN : ResubscribeSent(ok)
    \/ \E clean \in BOOLEAN : SessionEnd(clean)
    \/ SleepDone

BackoffSpec == StreamInit /\ [][BackoffNext]_vars

\* Callers that pass different callbacks, on a client that is never closed
CallbackNext ==
    \/ \E subs \in SUBSET Subs \ {{}}, cb \in Callbacks : StreamSubscribe(subs, cb)
    \/ TaskStart
    \/ ConnectOk
    \/ ResubscribeSent(TRUE)
    \/ \E data \in StreamPackets : Receive(data)
    \/ \E clean \in BOOLEAN : SessionEnd(clean)
    \/ Len(ws.slept) < MaxStreamSleeps /\ SleepDone
    \/ CallbackStart
    \/ \E i \in 1..MaxFrames : CallbackEnd(i)

CallbackSpec == StreamInit /\ [][CallbackNext]_vars

\* The reconnect loop of a client that is never closed and has a session.
\* The event loop runs a created task and ends a sleep (weak fairness);
\* connection attempts, and the resubscribe send that follows the handshake,
\* succeed in the end if they are made again and again (strong fairness)
LiveInit ==
    /\ StreamInit
    /\ session = LiveSession

LiveNext ==
    \/ \E subs \in SUBSET Subs \ {{}} : StreamSubscribe(subs, "cb1")
    \/ \E x \in Subs : StreamUnsubscribe({x.instrument})
    \/ \E ok \in BOOLEAN : StreamUnsubscribeDone(ok)
    \/ TaskStart
    \/ ConnectOk
    \/ ConnectFail
    \/ \E ok \in BOOLEAN : ResubscribeSent(ok)
    \/ \E clean \in BOOLEAN : SessionEnd(clean)
    \/ SleepDone

LiveSpec ==
    /\ LiveInit
    /\ [][LiveNext]_vars
    /\ WF_vars(TaskStart)
    /\ WF_vars(SleepDone)
    /\ SF_vars(ConnectOk)
    /\ SF_vars(ResubscribeSent(TRUE))

\* The decoder alone: a connected client that tracks some of the instruments
\* receives packets of every mode, below and at each minimum length
DecodePackets ==
    {Packet(t, m, len) :
        t \in {"2885", "99999"},
        m \in {MODE_LTP, MODE_QUOTE, MODE_SNAP_QUOTE},
        len \in {LTP_MIN - 1, LTP_MIN, QUOTE_MIN - 1, QUOTE_MIN, SNAP_QUOTE_MIN - 1, SNAP_QUOTE_MIN}}

DecodeInit ==
    /\ today = 1
    /\ on_stale = "fail"
    /\ committed = EmptyDB
    /\ conn = EmptyDB
    /\ connOpen = FALSE
    /\ client = "none"
    /\ cache = {}
    /\ task = [t \in Tasks |-> IdleTask]
    /\ ret = [RetInit("ok", "none") EXCEPT !.op = "none"]
    /\ pre = EmptyDB
    /\ phase = "none"
    /\ loaded = EmptyParsed
    /\ po = IdlePO
    /\ caps = ANGELONE_CAPABILITIES
    /\ req = IdleReq
    /\ config = NoConfig
    /\ authObj = "ready"
    /\ mode = "auto"
    /\ session = LiveSession
    /\ sessions = EmptySessions
    /\ net = <<>>
    /\ aret = [op |-> "none", status |-> "ok", hook |-> "none", cached |-> NoSession,
               prev |-> NoSession, at |-> 1]
    /\ ca = IdleCA
    /\ cp = IdleCP
    /\ \E subs \in SUBSET Subs :
          LET tokens == {x.token : x \in subs}
          IN  /\ token_map = Put(EmptyLedger,
                    [t \in tokens |-> (CHOOSE x \in subs : x.token = t).instrument])
              /\ token_exchange_type = Put(EmptyLedger,
                    [t \in tokens |-> ExchangeType((CHOOSE x \in subs : x.token = t).exchange)])
    /\ ws = [IdleWS EXCEPT !.pc = "recv", !.sock = "live", !.ping = "running",
                           !.on_tick = "cb1", !.latest = "cb1",
                           !.acked = DOMAIN token_map]
    /\ TailIdle

DecodeNext == \E data \in DecodePackets : Receive(data)

DecodeSpec == DecodeInit /\ [][DecodeNext]_vars

-----------------------------------------------------------------------------
(* Two calls of ensure_fresh / refresh in flight on one manager *)

\* init() returned on day 1 over FullInput; on day 2 two callers have each
\* called ensure_fresh (at its staleness test) or refresh (at its fetch) on the
\* same manager, hence on the same connection
ConcInit ==
    /\ today = 2
    /\ on_stale = "fail"
    /\ caps = ANGELONE_CAPABILITIES
    /\ committed = StoreOf(FullInput, 1, caps.broker_id)
    /\ conn = committed
    /\ connOpen = TRUE
    /\ client = "ready"
    /\ cache = {}
    /\ task \in [Tasks -> {[IdleTask EXCEPT !.pc = "is_stale"],
                           [IdleTask EXCEPT !.pc = "fetch"]}]
    /\ ret = RetInit("running", "none")
    /\ pre = EmptyDB
    /\ phase = "none"
    /\ loaded = FullInput
    /\ po = IdlePO
    /\ req = IdleReq
    /\ AuthIdle
    /\ ca = IdleCA
    /\ cp = IdleCP
    /\ StreamIdle
    /\ TailIdle

\* what the broker serves on day 2
ConcInputs ==
    {[indices |-> <<IdxNifty>>, equities |-> <<EqRel>>, futures |-> <<>>, options |-> <<>>]}

\* the steps of a call in which nothing fails
ConcStep(t) ==
    \/ IsStaleStep(t)
    \/ \E p \in ConcInputs : FetchOf(t, p)
    \/ TruncateStep(t)
    \/ TruncateCommit(t)
    \/ InsertStmt(t)
    \/ InsertConflict(t)
    \/ BuildLookup(t)
    \/ InsertCommit(t)
    \/ SetMetaStmt(t)
    \/ MetaCommit(t)

ConcNext == \E t \in Tasks : ConcStep(t)

ConcSpec == ConcInit /\ [][ConcNext]_vars

-----------------------------------------------------------------------------
(* REST calls of an adapter whose session is renewed meanwhile *)

HeaderInit ==
    /\ today = 1
    /\ on_stale = "fail"
    /\ committed = EmptyDB
    /\ conn = EmptyDB
    /\ connOpen = FALSE
    /\ client = "none"
    /\ cache = {}
    /\ task = [t \in Tasks |-> IdleTask]
    /\ ret = [RetInit("ok", "none") EXCEPT !.op = "none"]
    /\ pre = EmptyDB
    /\ phase = "none"
    /\ loaded = EmptyParsed
    /\ po = IdlePO
    /\ caps = ANGELONE_CAPABILITIES
    /\ req = IdleReq
    /\ config = [auth_mode |-> "auto", access_token |-> "-", creds |-> TRUE]
    /\ authObj = "ready"
    /\ mode = "auto"
    /\ session \in {NoSession, LiveSession}
    /\ sessions = EmptySessions
    /\ net = <<>>
    /\ aret = [op |-> "none", status |-> "ok", hook |-> "none", cached |-> NoSession,
               prev |-> NoSession, at |-> 1]
    /\ ca = IdleCA
    /\ cp = IdleCP
    /\ StreamIdle
    /\ TailIdle

HeaderNext ==
    \/ TokenLogin
    \/ TokenRefresh
    \/ \E c \in Calls : RestCall(c)
    \/ \E c \in Calls, retry \in BOOLEAN : RestAttempt(c, retry)

HeaderSpec == HeaderInit /\ [][HeaderNext]_vars

-----------------------------------------------------------------------------
(* The session file under saves, loads and interrupted saves *)

SavedSessions ==
    {SessionData("jwtL1", "rtL1", "ftL1", <<2>>), SessionData("jwtR", "rtR", "ftR", <<2>>),
     SessionData("tok1", "-", "-", <<2>>)}

FileNext ==
    \/ \E s \in SavedSessions : FileSaveOpen(s)
    \/ \E n \in 1..6 : FileSaveWrite(n)
    \/ FileSaveReturn
    \/ FileSaveInterrupted
    \/ FileLoad
    \/ FileClear

FileSpec == HeaderInit /\ [][FileNext]_vars

-----------------------------------------------------------------------------
(* The vendor parsers on bounded dumps *)

ParseNext ==
    \/ \E rows \in DumpsOf(ZerodhaRows, MaxRows) : Download("zerodha", rows)
    \/ \E rows \in DumpsOf(AngelOneRows, MaxRows) : Download("angelone", rows)
    \/ ParseStep

ParseSpec == HeaderInit /\ [][ParseNext]_vars

-----------------------------------------------------------------------------
(* Properties of the store and its refresh *)

SeqRange(q) == {q[k] : k \in DOMAIN q}

\* C1: refresh is all-or-nothing: whenever a running refresh is interrupted (an
\* awaited step raises, the task is cancelled, the process dies), the committed
\* contents of the five tables and of _meta.last_updated are those the refresh
\* started from.
C1_AllOrNothing ==
    [][(phase = "running" /\ phase' = "interrupted") => committed' = pre]_vars

\* C2: a resolve for which no store row matches ends in InstrumentNotFoundError;
\* a returned token is the token of a broker_tokens row of the resolver's broker;
\* and after a miss the cache has no entry for the instrument.
C2_MissRaises ==
    ret.op = "resolve" =>
        /\ ResolveRows(conn, ret.inst, caps.broker_id) = {} => ret.status = "not_found"
        /\ ret.status = "ok" =>
              \E bt \in conn.broker_tokens :
                  bt.token = ret.res.token /\ bt.broker_id = caps.broker_id
        /\ ret.status = "not_found" => \A e \in cache : e.inst # ret.inst

\* a miss on a loaded store, by a resolver that has cached another instrument
C2_Witness ==
    /\ ret.op = "resolve"
    /\ ret.status = "not_found"
    /\ conn.broker_tokens # {}
    /\ cache # {}

C4_Orphans(db, rows) == {d \in rows : ~\E u \in db.instruments : u.id = d.underlying_id}

C4_CashKeys(p) ==
    {<<r.exchange, r.symbol>> : r \in SeqRange(p.indices) \cup SeqRange(p.equities)}

\* the parsed derivatives whose underlying is among the parsed indices and equities
C4_Kept(rows, p) ==
    {k \in DOMAIN rows : <<rows[k].underlying_exchange, rows[k].symbol>> \in C4_CashKeys(p)}

\* table row d stems from a parsed row, and its underlying_id is the id of an
\* instruments row with that parsed row's (underlying_exchange, symbol)
C4_Linked(db, d, rows) ==
    \E i \in db.instruments, u \in db.instruments, k \in DOMAIN rows :
        /\ i.id = d.instrument_id
        /\ u.id = d.underlying_id
        /\ rows[k].exchange = i.exchange
        /\ rows[k].symbol = i.symbol
        /\ IsoFormat(rows[k].expiry) = d.expiry
        /\ u.exchange = rows[k].underlying_exchange
        /\ u.symbol = rows[k].symbol

\* C4: no futures or options row ever has an orphaned underlying_id, and after a
\* completed refresh every such row points at the instruments row of its parsed
\* (underlying_exchange, symbol), the refresh having skipped exactly the parsed
\* derivatives whose underlying is not among the parsed indices and equities.
C4_ForeignKeys ==
    /\ C4_Orphans(conn, conn.futures) = {}
    /\ C4_Orphans(conn, conn.options) = {}
    /\ C4_Orphans(committed, committed.futures) = {}
    /\ C4_Orphans(committed, committed.options) = {}
    /\ phase = "completed" =>
          /\ committed = conn
          /\ \A d \in conn.futures : C4_Linked(conn, d, loaded.futures)
          /\ \A d \in conn.options : C4_Linked(conn, d, loaded.options)
          /\ Cardinality(conn.futures) = Cardinality(C4_Kept(loaded.futures, loaded))
          /\ Cardinality(conn.options) = Cardinality(C4_Kept(loaded.options, loaded))

\* a completed refresh that skipped a future without underlying and kept an option
C4_Witness ==
    /\ phase = "completed"
    /\ loaded.futures # <<>>
    /\ conn.futures = {}
    /\ conn.options # {}

\* C5: a call of ensure_fresh goes on to the fetch function exactly when
\* _meta.last_updated is absent or differs from today's date, and fetch is
\* invoked from nowhere else.
C5_FetchIffStale ==
    [][\A t \in Tasks :
          /\ (task[t].pc = "is_stale" /\ task'[t].pc # "is_stale" /\ connOpen') =>
                (task'[t].pc = "fetch" <=>
                    (conn.last_updated = NoRow \/ conn.last_updated # IsoFormat(today)))
          /\ (task'[t].pc = "fetch" /\ task[t].pc # "fetch") => task[t].pc = "is_stale"]_vars

\* ensure_fresh returned without a refresh on a store stamped with today's date
C5_Witness ==
    /\ client = "ready"
    /\ ret.op = "init"
    /\ ret.status = "ok"
    /\ phase = "none"
    /\ conn.last_updated = IsoFormat(today)

\* C6: when refresh raises inside ensure_fresh, FAIL lets the exception through;
\* WARN returns normally if the instruments table holds a row and otherwise
\* raises the no-cached-data TTConnectError.
C6_OnStalePolicy ==
    (ret.op = "init" /\ ret.cause = "exception" /\ ret.status # "running") =>
        /\ on_stale = "fail" => ret.status = "raised"
        /\ on_stale = "warn" =>
              \/ ret.status = "ok_stale" /\ conn.instruments # {}
              \/ ret.status = "no_cache" /\ conn.instruments = {}

\* WARN: a refresh raised and ensure_fresh returned on the rows still present
C6_Witness ==
    /\ ret.op = "init"
    /\ ret.status = "ok_stale"
    /\ on_stale = "warn"
    /\ conn.instruments # {}

C7_Groups == {"indices", "equities", "futures", "options"}

\* the canonical instrument a caller builds for a parsed row: the underlying's
\* exchange and the canonical symbol, plus expiry, strike and option type
C7_CanonicalOf(grp, row) ==
    CASE grp = "indices"  -> Index(row.exchange, row.symbol)
      [] grp = "equities" -> Equity(row.exchange, row.symbol)
      [] grp = "futures"  -> Future(row.underlying_exchange, row.symbol, row.expiry)
      [] OTHER -> Option(row.underlying_exchange, row.symbol, row.expiry, row.strike,
                         row.option_type)

\* rows of p that a refresh stores: all indices and equities, and the derivatives
\* whose underlying is among them
C7_Stored(p, grp) ==
    IF grp \in {"futures", "options"} THEN C4_Kept(p[grp], p) ELSE DOMAIN p[grp]

\* every stored row of p resolves, and to nothing but its own broker token
C7_RoundTrip(p) ==
    \A grp \in C7_Groups : \A k \in C7_Stored(p, grp) :
        /\ \A o \in FetchOne(ResolveRows(conn, C7_CanonicalOf(grp, p[grp][k]), caps.broker_id)) :
              o.found /\ o.res.token = p[grp][k].broker_token
        /\ (ret.op = "resolve" /\ ret.inst = C7_CanonicalOf(grp, p[grp][k])) =>
              ret.status = "ok" /\ ret.res.token = p[grp][k].broker_token

\* no two rows of a group of p stand for the same canonical instrument
C7_DistinctKeys(p) ==
    \A grp \in C7_Groups : \A j \in DOMAIN p[grp], k \in DOMAIN p[grp] :
        j # k => C7_CanonicalOf(grp, p[grp][j]) # C7_CanonicalOf(grp, p[grp][k])

\* C7 (as stated): after a refresh with input p, resolving the canonical
\* instrument of any stored row of p returns exactly that row's broker token.
C7_RoundTripAnyInput ==
    (phase = "completed" /\ client = "ready") => C7_RoundTrip(loaded)

\* C7 (amended): the round trip holds for inputs in which no two rows of a group
\* share a canonical key.
C7_RoundTripDistinct ==
    (phase = "completed" /\ client = "ready" /\ C7_DistinctKeys(loaded)) =>
        C7_RoundTrip(loaded)

\* an option of a full input has been resolved after the refresh that stored it
C7_Witness ==
    /\ phase = "completed"
    /\ C7_DistinctKeys(loaded)
    /\ loaded.indices # <<>>
    /\ ret.op = "resolve"
    /\ ret.status = "ok"
    /\ ret.inst.kind = "Option"

\* C8: a Future or Option resolves through the underlying row, which carries the
\* caller's exchange (NSE/BSE) and symbol, and the result's exchange is the
\* derivative row's own venue (NFO/BFO); an Index or Equity resolves to the
\* exchange the caller supplied.
C8_VenueOfResult ==
    (ret.op = "resolve" /\ ret.status = "ok") =>
        IF ret.inst.kind \in {"Future", "Option"}
        THEN /\ ret.res.exchange \in {"NFO", "BFO"}
             /\ ret.inst.exchange \in {"NSE", "BSE"}
             /\ \E d \in conn.instruments, u \in conn.instruments, bt \in conn.broker_tokens :
                  /\ \E x \in (IF ret.inst.kind = "Future" THEN conn.futures ELSE conn.options) :
                        x.instrument_id = d.id /\ x.underlying_id = u.id
                  /\ bt.instrument_id = d.id
                  /\ bt.token = ret.res.token
                  /\ d.exchange = ret.res.exchange
                  /\ u.exchange = ret.inst.exchange
                  /\ u.symbol = ret.inst.symbol
        ELSE ret.res.exchange = ret.inst.exchange

\* a future asked for on NSE came back with venue NFO
C8_Witness ==
    /\ ret.op = "resolve"
    /\ ret.status = "ok"
    /\ ret.inst.kind = "Future"
    /\ ret.inst.exchange = "NSE"
    /\ ret.res.exchange = "NFO"

\* C9: once a refresh has completed, the client's resolver holds no entry cached
\* before it, and every resolve returns a row of the join on the current tables
\* or raises.
C9_CacheInvalidated ==
    /\ client = "ready" => \A e \in cache : ~e.pre_refresh
    /\ ret.op = "resolve" =>
          /\ ~ret.pre_refresh
          /\ ret.status = "ok" => ret.res \in ResolveRows(conn, ret.inst, caps.broker_id)

\* init returned after a completed refresh, and the resolver it replaced held entries
C9_Witness ==
    /\ ret.op = "init"
    /\ ret.status = "ok"
    /\ ret.dropped
    /\ phase = "completed"
    /\ client = "ready"
    /\ cache = {}

-----------------------------------------------------------------------------
(* Properties of the order path *)

\* capabilities.verify's documented grounds for rejecting the call in flight
C3_Rejected ==
    \/ po.inst.kind = "Index"
    \/ po.inst.exchange \notin caps.segments
    \/ po.order_type \notin caps.order_types
    \/ po.product \notin caps.product_types

\* C3: a rejected place_order raises UnsupportedFeatureError having run no
\* resolver query and sent no request; a request is sent only for a call that
\* verify accepted and whose instrument resolved; a failed resolution sends none.
C3_VerifyResolveSend ==
    po.pc # "idle" =>
        /\ C3_Rejected =>
              /\ po.pc = "done"
              /\ po.result = "UnsupportedFeatureError"
              /\ po.queries = 0
              /\ po.http = 0
        /\ po.http > 0 =>
              /\ ~C3_Rejected
              /\ po.res \in ResolveRows(conn, po.inst, caps.broker_id)
        /\ po.result = "InstrumentNotFoundError" => po.http = 0

\* an equity order on a supported exchange rejected for its SL_M order type alone
C3_Witness ==
    /\ po.pc = "done"
    /\ po.result = "UnsupportedFeatureError"
    /\ po.inst.kind = "Equity"
    /\ po.inst.exchange \in caps.segments
    /\ po.order_type = "SL_M"
    /\ po.product \in caps.product_types
    /\ po.http = 0

-----------------------------------------------------------------------------
(* Properties of _request *)

C10_Transient(reply) ==
    reply.kind = "timeout" \/ (reply.kind = "response" /\ reply.status >= 500)

\* C10: _request makes at most 3 attempts; attempt i is followed by another
\* exactly when it ended in a timeout or a 5xx response and i < 3; and a
\* non-5xx, non-error response is returned at once.
C10_RetryExactlyOnTransient ==
    /\ Len(req.log) <= 3
    /\ \A i \in DOMAIN req.log :
          /\ i < Len(req.log) => C10_Transient(req.log[i]) /\ i < 3
          /\ (i = Len(req.log) /\ req.pc = "done") =>
                ~(C10_Transient(req.log[i]) /\ i < 3)
          /\ (req.log[i].kind = "response" /\ req.log[i].status < 400
                /\ req.log[i].body = "object") =>
                i = Len(req.log) /\ req.pc = "done" /\ req.result = "returned"

\* a response that is a client error, or carries the vendor's error envelope
\* without being a server error
C11_Rejection(reply) ==
    /\ reply.kind = "response"
    /\ reply.status < 500
    /\ reply.status >= 400 \/ reply.body = "error_object"

\* C11: an attempt that gets a 4xx response, or a response carrying a vendor
\* business error, is the call's last: the exception built by parse_error is
\* raised, with no sleep and no further attempt after it.
C11_RejectionRaisesParseError ==
    \A i \in DOMAIN req.log :
        C11_Rejection(req.log[i]) =>
            /\ i = Len(req.log)
            /\ req.pc = "done"
            /\ req.result = "parse_error"
            /\ Len(req.slept) = i - 1

C12_ErrorOf(reply) ==
    IF reply.kind = "timeout" THEN "TimeoutException" ELSE "TTConnectError"

\* C12: a call whose 3 attempts all ended in a timeout or a 5xx response raises
\* a BrokerError whose cause is the error of the third attempt.
C12_ExhaustedRaisesBrokerError ==
    (/\ req.pc = "done"
     /\ Len(req.log) = 3
     /\ \A i \in DOMAIN req.log : C10_Transient(req.log[i])) =>
        /\ req.result = "BrokerError"
        /\ req.cause = C12_ErrorOf(req.log[3])

-----------------------------------------------------------------------------
(* Properties of authentication *)

C13_WitnessExpired ==
    /\ aret.op = "login"
    /\ aret.status = "ok"
    /\ aret.cached # NoSession
    /\ aret.hook # "none"
    /\ session # aret.cached

\* C14: after a login() or refresh() that returned, in either mode, the store's
\* entry for the broker is the session in use (same tokens, same expiry).
C14_StoreHoldsLiveSession ==
    (aret.op \in {"login", "refresh"} /\ aret.status = "ok") =>
        Load(sessions, caps.broker_id) = session

C15_IsLogin(e) == e.req = "login"
C15_IsRenew(e) == e.req = "renew"

\* C15: refresh() in AUTO mode sends the renew-token request first when a
\* refresh token is held, falls back to one full login when renewal fails, returns
\* iff the renewal or that login succeeded, and then holds that reply's tokens.
C15_RenewThenOneLogin ==
    (aret.op = "refresh" /\ mode = "auto") =>
        LET logins == SelectSeq(net, C15_IsLogin)
            renews == SelectSeq(net, C15_IsRenew)
            renewed == renews # <<>> /\ renews[1].reply.kind = "ok"
        IN  /\ Len(renews) = IF aret.prev.refresh_token = "-" THEN 0 ELSE 1
            /\ renews # <<>> => C15_IsRenew(net[1])
            /\ Len(logins) = IF renewed \/ ~config.creds THEN 0 ELSE 1
            /\ aret.status = "ok" <=> (renewed \/ (logins # <<>> /\ logins[1].reply.kind = "ok"))
            /\ aret.status = "ok" => session = SessionOf(net[Len(net)].reply, aret.at)

C17_ModeRaw == IF config.auth_mode = "-" THEN DefaultMode(caps.broker_id) ELSE config.auth_mode

-----------------------------------------------------------------------------
(* Properties of cancel_all_orders *)

\* C18: cancel_all_orders never raises: whatever fails, the failed order-book
\* fetch included, the call ends by returning (cancelled_ids, failed_ids).
C18_NeverRaises ==
    ca.pc = "done" => ca.result = "returned"

C19_OpenIds ==
    {ca.orders[i].id : i \in {j \in DOMAIN ca.orders : ca.orders[j].status \in {"OPEN", "PENDING"}}}

\* C19: when cancel_all_orders returns, exactly one cancel request went out for
\* each fetched order with status OPEN or PENDING and none for any other order;
\* cancelled_ids and failed_ids are disjoint, together they are the ids of the
\* OPEN/PENDING orders, and an id is in cancelled_ids iff its request succeeded.
C19_OneCancelPerOpenOrder ==
    ca.result = "returned" =>
        /\ SeqRange(ca.started) = C19_OpenIds
        /\ Len(ca.started) = Cardinality(C19_OpenIds)
        /\ SeqRange(ca.cancelled) \cap SeqRange(ca.failed) = {}
        /\ SeqRange(ca.cancelled) \cup SeqRange(ca.failed) = C19_OpenIds
        /\ Len(ca.cancelled) + Len(ca.failed) = Cardinality(C19_OpenIds)
        /\ \A i \in DOMAIN ca.replies :
              ca.replies[i].id \in SeqRange(ca.cancelled) <=> ca.replies[i].ok

\* a book with a finished order, a cancel that succeeded and one that failed
C19_Witness ==
    /\ ca.result = "returned"
    /\ ca.cancelled # <<>>
    /\ ca.failed # <<>>

\* a returned call left a COMPLETE order alone and cancelled a PENDING one
C19_WitnessSkipped ==
    /\ ca.result = "returned"
    /\ Len(ca.orders) = 2
    /\ ca.orders[1].status = "COMPLETE"
    /\ ca.orders[2].status = "PENDING"
    /\ ca.cancelled = <<2>>

\* C20: the cancel requests run concurrently: whenever one of them ends, the
\* request of every selected order has already been sent.
C20_AllStartedBeforeAnyEnds ==
    [][ca'.replies # ca.replies => Len(ca.started) = Len(ca.open)]_vars

-----------------------------------------------------------------------------
(* Properties of close_all_positions *)

\* rows of the fetched book whose netqty is a non-zero number, in book order
C21_NonZero == {i \in DOMAIN cp.rows : ToInt(cp.rows[i].netqty) # 0}

\* those of them whose row has every key an order needs
C21_Closable == {i \in C21_NonZero : cp.rows[i].shape = "full"}

C21_OrderFor(i) ==
    [status |-> "ok", tradingsymbol |-> i, ordertype |-> "MARKET",
     quantity |-> Abs(ToInt(cp.rows[i].netqty)),
     transactiontype |-> IF ToInt(cp.rows[i].netqty) > 0 THEN "SELL" ELSE "BUY"]

\* C21: when close_all_positions has ended on a fetched book, exactly one order
\* was placed for each position of non-zero quantity: a MARKET order for that
\* symbol, of quantity |qty|, SELL for qty > 0 and BUY for qty < 0; none was
\* placed for a position of quantity 0.
C21_OneOffsettingOrderPerPosition ==
    (cp.pc = "done" /\ cp.result \notin {"BrokerError", "AuthenticationError"}) =>
        /\ Len(cp.sent) = Cardinality(C21_Closable)
        /\ \A i \in C21_Closable :
              Cardinality({j \in DOMAIN cp.sent : cp.sent[j] = C21_OrderFor(i)}) = 1
        /\ \A j \in DOMAIN cp.sent : \E i \in C21_Closable : cp.sent[j] = C21_OrderFor(i)

\* C22: a failure at one position never aborts the batch: the call returns,
\* and placed ids plus failed symbols account for every non-zero position.
C22_FailureNeverAbortsBatch ==
    (cp.pc = "done" /\ cp.result \notin {"BrokerError", "AuthenticationError"}) =>
        /\ cp.result = "returned"
        /\ Len(cp.placed) + Len(cp.failed) = Cardinality(C21_NonZero)
        /\ SeqRange(cp.failed) \subseteq C21_NonZero

-----------------------------------------------------------------------------
(* Properties of the streaming client *)

\* C23: whenever a connection opens while the ledger is non-empty, the step
\* sends exactly one message; it is a subscribe (action 1), its groups hold
\* exactly the tokens of the ledger at that moment, no token twice, and each
\* token is filed under the exchangeType the ledger records for it.
C23_ResubscribesLedgerOnOpen ==
    ws.opened /\ DOMAIN token_map # {} =>
        /\ Len(ws.out) = 1
        /\ ws.out[1].action = 1
        /\ UNION {g.tokens : g \in ws.out[1].tokenList} = DOMAIN token_map
        /\ \A g \in ws.out[1].tokenList :
              /\ g.tokens # {}
              /\ \A t \in g.tokens : token_exchange_type[t] = g.exchangeType
        /\ \A g, h \in ws.out[1].tokenList : g # h => g.tokens \cap h.tokens = {}

\* a reconnect, after a back-off sleep, that resubscribes tokens of two exchanges
C23_Witness ==
    /\ ws.opened
    /\ ws.slept # <<>>
    /\ DOMAIN token_map = {"2885", "35001"}
    /\ Len(ws.out) = 1

\* a reconnect where one of two tokens was removed by unsubscribe beforehand
\* and only the other is resubscribed
C23_WitnessUnsubscribed ==
    /\ ws.opened
    /\ ws.slept # <<>>
    /\ \E i \in DOMAIN ws.dispatched : ws.dispatched[i].instrument = Equity("NSE", "RELIANCE")
    /\ DOMAIN token_map = {"35001"}
    /\ Len(ws.out) = 1

\* C24: the two maps of the ledger always have the same key set (each token has
\* one Instrument and one exchangeType); after a subscribe that names a token
\* already tracked the token still has its single entry in both maps.
C24_LedgerMapsAgree ==
    /\ DOMAIN token_map = DOMAIN token_exchange_type
    /\ \A t \in DOMAIN token_map :
          /\ token_map[t] \in {x.instrument : x \in {y \in Subs : y.token = t}}
          /\ token_exchange_type[t] \in 1..5
    /\ Cardinality(DOMAIN token_map) <= Cardinality(Subs)

\* a subscribe that names a token already tracked, while connected
C24_Witness ==
    /\ ws.dup
    /\ ws.sock = "live"
    /\ ws.out # <<>>
    /\ DOMAIN token_map = {"2885", "35001"}

\* an unsubscribe over a live socket has pruned a token that had ticked
C24_WitnessPruned ==
    /\ ws.unsub = {}
    /\ ws.sock = "live"
    /\ \E i \in DOMAIN ws.dispatched : ws.dispatched[i].instrument = Equity("NSE", "RELIANCE")
    /\ DOMAIN token_map = {"35001"}

\* C25: a step hands a tick to on_tick only if it received a packet whose
\* token is a key of the ledger as it is when the packet is decoded, and the
\* tick is for the instrument the ledger holds for that token; a packet whose
\* token is not in the ledger (never subscribed, or pruned by an unsubscribe
\* that has returned) adds no dispatch.
C25_DispatchOnlyTrackedTokens ==
    [][/\ Len(ws'.dispatched) > Len(ws.dispatched) =>
              /\ ws'.frame # NoPacket
              /\ DecodeToken(ws'.frame.token_bytes) \in DOMAIN token_map
              /\ ws'.dispatched[Len(ws'.dispatched)].instrument =
                     token_map[DecodeToken(ws'.frame.token_bytes)]
       /\ ws'.frame # NoPacket /\ DecodeToken(ws'.frame.token_bytes) \notin DOMAIN token_map =>
              ws'.dispatched = ws.dispatched]_vars

\* a packet for a token that ticked before and was unsubscribed since is dropped
C25_Witness ==
    /\ ws.frame # NoPacket
    /\ DecodeToken(ws.frame.token_bytes) = "2885"
    /\ "2885" \notin DOMAIN token_map
    /\ ws.arrived = 2
    /\ Len(ws.dispatched) = 1
    /\ ws.dispatched[1].instrument = Equity("NSE", "RELIANCE")

\* a packet for a token never subscribed is dropped
C25_WitnessNeverSubscribed ==
    /\ ws.frame # NoPacket
    /\ DecodeToken(ws.frame.token_bytes) = "99999"
    /\ ws.arrived = 1
    /\ ws.dispatched = <<>>

\* C26: the step that receives a packet with a tracked token appends its tick
\* after the ticks dispatched so far and creates its on_tick task without
\* changing the state of the earlier on_tick tasks, whatever that state is
\* (not started, running, ended by return or exception); no other step dispatches. So the
\* ticks are dispatched in the order of arrival and no callback is awaited.
C26_DispatchInArrivalOrder ==
    [][IF ws'.arrived = ws.arrived + 1
       THEN /\ ws'.frame # NoPacket
            /\ IF DecodeToken(ws'.frame.token_bytes) \in DOMAIN token_map
               THEN /\ Len(ws'.dispatched) = Len(ws.dispatched) + 1
                    /\ SubSeq(ws'.dispatched, 1, Len(ws.dispatched)) = ws.dispatched
                    /\ ws'.dispatched[Len(ws'.dispatched)].instrument =
                           token_map[DecodeToken(ws'.frame.token_bytes)]
                    /\ ws'.cbs = Append(ws.cbs, "pending")
               ELSE /\ ws'.dispatched = ws.dispatched
                    /\ ws'.cbs = ws.cbs
       ELSE /\ ws'.arrived = ws.arrived
            /\ ws'.dispatched = ws.dispatched]_vars

\* a second packet is decoded and dispatched while the callback of the first
\* is still running
C26_Witness ==
    /\ ws.frame # NoPacket
    /\ Len(ws.dispatched) = 2
    /\ ws.dispatched[1] # ws.dispatched[2]
    /\ ws.cbs = <<"running", "pending">>

\* a second packet is dispatched after the callback of the first has ended
C26_WitnessEnded ==
    /\ ws.frame # NoPacket
    /\ Len(ws.dispatched) = 2
    /\ ws.cbs = <<"done", "pending">>

\* the n-th delay of a run of failed sessions
C27_Schedule(n) ==
    CASE n = 1 -> 2
      [] n = 2 -> 4
      [] n = 3 -> 8
      [] n = 4 -> 16
      [] n = 5 -> 32
      [] OTHER -> 60

\* C27: the delay is always between 2 and 60; the sleeps completed since the
\* client was built or a session last ended cleanly were of 2, 4, 8, 16, 32,
\* 60, 60 seconds in this order, and the delay of the next sleep is the next
\* value of that sequence: 2 when no sleep was completed since a clean end.
C27_DelayFollowsSchedule ==
    /\ ws.delay >= 2
    /\ ws.delay <= 60
    /\ \A n \in DOMAIN ws.slept : ws.slept[n] = C27_Schedule(n)
    /\ ws.delay = IF Len(ws.slept) < MaxSleeps THEN C27_Schedule(Len(ws.slept) + 1) ELSE 60

\* seven sleeps were completed in a row and the delay stays at the ceiling
C27_Witness ==
    /\ Len(ws.slept) = 7
    /\ ws.slept[6] = 60
    /\ ws.slept[7] = 60
    /\ ws.delay = 60
    /\ ws.pc = "sleep"

\* C28: once close() has returned (and until subscribe is called again) the
\* task of the reconnect loop has ended, the ping task is not running and
\* _ws is None.
C28_CloseLeavesNothingBehind ==
    ws.closing = "returned" =>
        /\ ws.pc \in {"none", "done"}
        /\ ws.ping # "running"
        /\ ws.sock = "none"

\* the minimum length of a packet of the given subscription mode
C29_MinLen(m) ==
    CASE m = MODE_LTP -> LTP_MIN
      [] m = MODE_QUOTE -> QUOTE_MIN
      [] m = MODE_SNAP_QUOTE -> SNAP_QUOTE_MIN
      [] OTHER -> LTP_MIN

\* C29: a received packet shorter than the minimum length of its own mode
\* (51 bytes for LTP, 123 for QUOTE, 347 for SNAP-QUOTE) yields no tick.
C29_ShortPacketsDiscarded ==
    [][ws'.frame # NoPacket /\ ws'.frame.len < C29_MinLen(ws'.frame.mode) =>
           ws'.dispatched = ws.dispatched]_vars

-----------------------------------------------------------------------------
(* Properties of concurrent refreshes *)

\* the call of task t is at a truncate, insert or stamp step of refresh
C30_Rebuilding(t) == task[t].pc \in RefreshPcs \ {"fetch"}

\* C30: two calls in flight on one manager are never both inside the
\* truncate/insert part of refresh, no INSERT of either fails, and when both
\* have ended the committed tables are those a single refresh of what the
\* broker served leaves: every row once, none missing.
C30_RefreshIsExclusive ==
    /\ ~(C30_Rebuilding("t1") /\ C30_Rebuilding("t2"))
    /\ ret.status # "raised"
    /\ (\A t \in Tasks : task[t].pc = "idle") =>
           \E p \in ConcInputs : committed = StoreOf(p, today, caps.broker_id)

-----------------------------------------------------------------------------
(* Properties of the REST headers *)

\* C31: every request a REST call puts on the wire, retries included, carries
\* the token that was current when the adapter method was invoked, whatever
\* login or refresh did to the session since; a call made after a rotation
\* carries the new token; and no two calls hold the same header dict.
C31_HeadersSnapshotAtCall ==
    /\ \A c \in Calls : hd.calls[c].wire # "none" =>
          hd.calls[c].wire = Bearer(hd.calls[c].at_call)
    /\ \A c \in Calls : hd.calls[c].pc = "flight" =>
          hd.heap[hd.calls[c].ref] = Bearer(hd.calls[c].at_call)
    /\ \A c, d \in Calls :
          c # d /\ hd.calls[c].ref # 0 /\ hd.calls[d].ref # 0 =>
              hd.calls[c].ref # hd.calls[d].ref

\* a call retried after the token was rotated, next to a call started after
\* the rotation
C31_Witness ==
    \E c, d \in Calls :
        /\ c # d
        /\ hd.calls[c].pc = "flight"
        /\ hd.calls[c].attempt > 1
        /\ hd.calls[c].rotated
        /\ hd.calls[d].wire # "none"
        /\ hd.calls[d].at_call # hd.calls[c].at_call
        /\ hd.calls[d].at_call = session.access_token

-----------------------------------------------------------------------------
(* Frame of the vendor's login and refresh *)

\* the three tokens AngelOneAuth holds
C38_Tokens(s) == <<s.access_token, s.refresh_token, s.feed_token>>

\* C38: after AngelOneAuth.login() or refresh() raised, the jwt, refresh and
\* feed tokens are the ones held before the call; when the call returned, the
\* three are together those of the accepted response, the last one received;
\* in no case is one of the three changed without such a response.
C38_FailedAttemptKeepsTokens ==
    aret.hook \in {"_login_auto", "_refresh_auto"} =>
        /\ aret.status # "ok" => C38_Tokens(session) = C38_Tokens(aret.prev)
        /\ aret.status = "ok" =>
              /\ net # <<>>
              /\ net[Len(net)].reply.kind = "ok"
              /\ C38_Tokens(session) = <<net[Len(net)].reply.jwt,
                                         net[Len(net)].reply.refresh,
                                         net[Len(net)].reply.feed>>
        /\ \A i \in DOMAIN net : i < Len(net) => net[i].reply.kind # "ok"

\* refresh() raised after a rejected renewToken and two failed logins, while
\* tokens were held
C38_Witness ==
    /\ aret.hook = "_refresh_auto"
    /\ aret.status # "ok"
    /\ aret.prev.access_token # "-"
    /\ aret.prev.refresh_token # "-"
    /\ Len(net) = 3
    /\ session = aret.prev

-----------------------------------------------------------------------------
(* The session file seen by load *)

\* C32: whatever load() returns, during a save or after one that was cut
\* short included, is the complete session of the last save that finished or
\* the complete session of the save started since.
C32_LoadSeesWholeSession ==
    fs.got # <<>> => fs.got[1] \in {fs.prev, fs.new}

\* the round trip that does hold: with no save under way and none cut short,
\* load() returns the session saved last
C32_LoadAfterSaveReturned ==
    fs.got # <<>> /\ ~fs.during /\ ~fs.cut => fs.got[1] = fs.prev

-----------------------------------------------------------------------------
(* Refreshing twice with the same input *)

\* the (exchange, symbol) of the row a derivative points to
C33_Underlying(db, uid) ==
    {<<u.exchange, u.symbol>> : u \in {x \in db.instruments : x.id = uid}}

\* an instruments row with everything that hangs on it, primary keys left out
C33_Tuple(db, r) ==
    [exchange |-> r.exchange, symbol |-> r.symbol, segment |-> r.segment,
     tokens   |-> {<<b.token, b.broker_symbol>> :
                       b \in {x \in db.broker_tokens : x.instrument_id = r.id}},
     equity   |-> \E e \in db.equities : e.instrument_id = r.id,
     futures  |-> {<<f.expiry, C33_Underlying(db, f.underlying_id)>> :
                       f \in {x \in db.futures : x.instrument_id = r.id}},
     options  |-> {<<o.expiry, o.strike, o.option_type, C33_Underlying(db, o.underlying_id)>> :
                       o \in {x \in db.options : x.instrument_id = r.id}}]

\* the five data tables modulo primary keys: row counts and tuples
C33_Contents(db) ==
    [counts |-> <<Cardinality(db.instruments), Cardinality(db.equities),
                  Cardinality(db.futures), Cardinality(db.options),
                  Cardinality(db.broker_tokens)>>,
     rows   |-> {C33_Tuple(db, r) : r \in db.instruments}]

\* a refresh has truncated and inserted and is at the write of _meta; the
\* store it started from was what an earlier refresh with the same input left
C33_SecondRefreshDone(t) ==
    /\ task[t].pc \in {"set_meta", "meta_commit"}
    /\ pre.last_updated # NoRow
    /\ C33_Contents(pre) = C33_Contents(StoreOf(task[t].parsed, today, caps.broker_id))

\* C33: when a refresh runs on the result of a refresh with the same
\* ParsedInstruments, the five data tables after its truncate and inserts have
\* the row counts and the tuples they had before, primary keys aside.
C33_RefreshTwiceSameTables ==
    \A t \in Tasks : C33_SecondRefreshDone(t) =>
        /\ C33_Contents(committed) = C33_Contents(pre)
        /\ C33_Contents(conn) = C33_Contents(pre)

\* the second refresh of an input with rows in all four groups
C33_Witness ==
    \E t \in Tasks :
        /\ C33_SecondRefreshDone(t)
        /\ task[t].pc = "meta_commit"
        /\ task[t].parsed.indices # <<>> /\ Len(task[t].parsed.equities) = 2
        /\ task[t].parsed.futures # <<>> /\ task[t].parsed.options # <<>>
        /\ committed.options # {} /\ committed.futures # {}

-----------------------------------------------------------------------------
(* What the WARN fall-back serves *)

\* the five data tables of a database
C35_Tables(db) ==
    <<db.instruments, db.equities, db.futures, db.options, db.broker_tokens>>

\* C35: under on_stale=WARN, when ensure_fresh returns normally after its
\* refresh failed, the tables the resolver reads are those of before the
\* refresh: no row of the failed refresh, no row of the old store missing.
C35_WarnServesPreRefreshTables ==
    [][\A t \in Tasks :
          task[t].pc = "has_any_data" /\ client' = "ready" =>
              C35_Tables(conn') = C35_Tables(pre)]_vars

\* the part that holds: a failure of the fetch leaves the old tables
C35_FetchFailureKeepsTables ==
    [][\A t \in Tasks :
          task[t].pc = "fetch" /\ task'[t].pc = "has_any_data" =>
              C35_Tables(conn') = C35_Tables(pre')]_vars

-----------------------------------------------------------------------------
(* What last_updated = today stands for *)

\* _meta.last_updated of db is today's date
C36_Fresh(db, day) == db.last_updated = IsoFormat(day)

\* C36: last_updated becomes today's date only on tables that hold, committed,
\* every insertable row of the fetch of the refresh that writes it, and as long
\* as it says today the tables stay as they are: never empty or partial.
C36_FreshMeansComplete ==
    [][/\ ~C36_Fresh(conn, today) /\ C36_Fresh(conn', today') =>
            \E t \in Tasks :
                /\ task[t].pc = "set_meta"
                /\ C33_Contents(conn') =
                       C33_Contents(StoreOf(task[t].parsed, today, caps.broker_id))
                /\ C35_Tables(committed') = C35_Tables(conn')
       /\ C36_Fresh(conn, today) /\ C36_Fresh(conn', today') =>
            C35_Tables(conn') = C35_Tables(conn)
       /\ C36_Fresh(committed, today) /\ C36_Fresh(committed', today') =>
            C35_Tables(committed') = C35_Tables(committed)
       /\ ~C36_Fresh(committed, today) /\ C36_Fresh(committed', today') =>
            /\ C36_Fresh(conn, today)
            /\ C35_Tables(committed') = C35_Tables(conn)]_vars

-----------------------------------------------------------------------------
(* Options with strike 0 in the source *)

\* an option-typed source row on NFO/BFO whose strike field is 0
C34_ZeroStrikeOption(vendor, row) ==
    IF vendor = "zerodha"
    THEN row.exchange \in FUT_EXCHANGES /\ row.instrument_type \in {"CE", "PE"}
         /\ row.strike = 0
    ELSE row.exch_seg \in FUT_EXCHANGES /\ row.instrumenttype \in {"OPTIDX", "OPTSTK"}
         /\ row.strike = 0

\* C34: a dump made of option-typed NFO/BFO rows with strike 0 parses to four
\* empty groups, and no parsed option has strike 0.
C34_ZeroStrikeRejected ==
    pr.pc = "parsed" =>
        /\ (\A i \in DOMAIN pr.rows : C34_ZeroStrikeOption(pr.vendor, pr.rows[i]))
              => pr.result = EmptyParsed
        /\ \A i \in DOMAIN pr.result.options : pr.result.options[i].strike # 0

\* the part that holds: such a row is not taken for an equity, an index or a future
C34_ZeroStrikeNotAnEquity ==
    pr.pc = "parsed"
    /\ (\A i \in DOMAIN pr.rows : C34_ZeroStrikeOption(pr.vendor, pr.rows[i]))
        => pr.result.equities = <<>> /\ pr.result.indices = <<>> /\ pr.result.futures = <<>>

-----------------------------------------------------------------------------
(* The venue an order is routed to *)

\* C37: the exchange in the payload of every order place_order has sent is one
\* of the segments the vendor declares.
C37_RoutedVenueIsDeclared ==
    po.http > 0 => po.exchange \in caps.segments

\* the part that holds: the exchange of the instrument the caller named is
\* declared for every order sent
C37_NamedVenueIsDeclared ==
    po.http > 0 => po.inst.exchange \in caps.segments

-----------------------------------------------------------------------------
(* The callback ticks are handed to *)

\* C39: the client holds one callback, the one the latest subscribe call
\* passed: every tick dispatched, whichever subscribe call added its
\* instrument, is handed to that callback, and ticks handed out before stay
\* with the callback they were given to.
C39_TicksGoToLatestCallback ==
    [][/\ ws'.on_tick = ws'.latest
       /\ Len(ws'.tocb) = Len(ws'.dispatched)
       /\ IF Len(ws'.tocb) > Len(ws.tocb)
          THEN /\ ws'.tocb[Len(ws'.tocb)] = ws.latest
               /\ SubSeq(ws'.tocb, 1, Len(ws.tocb)) = ws.tocb
          ELSE ws'.tocb = ws.tocb]_vars

\* a tick of RELIANCE went to cb1; after a subscribe that passed cb2 the next
\* tick of RELIANCE went to cb2
C39_Witness ==
    /\ ws.tocb = <<"cb1", "cb2">>
    /\ ws.dispatched[1].instrument = Equity("NSE", "RELIANCE")
    /\ ws.dispatched[2].instrument = Equity("NSE", "RELIANCE")
    /\ ws.latest = "cb2"

-----------------------------------------------------------------------------
(* Every tracked token reaches the server *)

\* token t went out in a subscribe message on the connection now open, and
\* the resubscribe send of that connection has completed
C40_Sent(t) ==
    /\ ws.sock = "live"
    /\ ws.pc = "recv"
    /\ t \in ws.acked

\* C40: a token that subscribe() has put into the ledger is eventually sent in
\* a subscribe message on a live connection (or unsubscribed before), when
\* connection attempts succeed in the end and close() is not called.
C40_TrackedTokensEventuallySent ==
    \A t \in {x.token : x \in Subs} :
        (t \in DOMAIN token_map) ~> (C40_Sent(t) \/ t \notin DOMAIN token_map)

\* both tokens are on the wire of a connection opened after a failed attempt
\* and a back-off sleep
C40_Witness ==
    /\ ws.slept # <<>>
    /\ DOMAIN token_map = {x.token : x \in Subs}
    /\ \A x \in Subs : C40_Sent(x.token)

====
